---- MODULE Spec2Model ----
(***************************************************************************)
(* A model of segment, an in-memory key-value server (Rust, tokio).        *)
(*                                                                         *)
(*   src/src/db.rs          Db (registry of keyspaces), Keyspace (store,   *)
(*                          expiring index, evictor tasks), Value          *)
(*   src/src/command.rs     command::parse: Frame -> Command               *)
(*   src/src/server.rs      Server::start, ConnectionHandler::handle       *)
(*   src/src/connection.rs  Connection::read_frame / write_frame           *)
(*                                                                         *)
(* Byte strings (bytes::Bytes) are sequences of byte values.  An           *)
(* Option<T> is a sequence of length at most one.  A Result is a record    *)
(* with the field ok.  A HashMap is a function whose DOMAIN is the set of  *)
(* keys present.                                                           *)
(***************************************************************************)
EXTENDS Integers, Sequences, FiniteSets, TLC

----------------------------------------------------------------------------
(* Bounds of the model *)

\* the clock (seconds since the epoch) runs from 0 to MaxTime
MaxTime == 2
\* keyspace instances that can ever be created in one run of the server
MaxInst == 1
\* request frames the connections deliver, all together, in one run
MaxReqs == 2

----------------------------------------------------------------------------
(* Option, Result, HashMap *)

None == << >>
Some(x) == << x >>
IsSome(o) == o # << >>
Unwrap(o) == o[1]

Ok(v) == [ok |-> TRUE, val |-> v]
Err(e) == [ok |-> FALSE, err |-> e]

EmptyMap == << >>
HmContains(m, k) == k \in DOMAIN m
HmGet(m, k) == IF k \in DOMAIN m THEN Some(m[k]) ELSE None
HmInsert(m, k, v) == [x \in (DOMAIN m) \cup {k} |-> IF x = k THEN v ELSE m[x]]
HmRemove(m, k) == [x \in (DOMAIN m) \ {k} |-> m[x]]

Min(a, b) == IF a <= b THEN a ELSE b

----------------------------------------------------------------------------
(* Byte strings used by the model: ASCII codes *)

B_a == << 97 >>
B_k1 == << 107, 49 >>
B_k2 == << 107, 50 >>
B_v1 == << 118, 49 >>
B_v2 == << 118, 50 >>
B_PONG == << 80, 79, 78, 71 >>
\* the words of the command grammar
B_create == << 99, 114, 101, 97, 116, 101 >>
B_set == << 115, 101, 116 >>
B_get == << 103, 101, 116 >>
B_del == << 100, 101, 108 >>
B_drop == << 100, 114, 111, 112 >>
B_count == << 99, 111, 117, 110, 116 >>
B_ttl == << 116, 116, 108 >>
B_ping == << 112, 105, 110, 103 >>
B_keyspaces == << 107, 101, 121, 115, 112, 97, 99, 101, 115 >>
B_evictor == << 101, 118, 105, 99, 116, 111, 114 >>
B_nop == << 110, 111, 112 >>
B_random == << 114, 97, 110, 100, 111, 109 >>
B_lru == << 108, 114, 117 >>
B_if_not_exists == << 105, 102, 95, 110, 111, 116, 95, 101, 120, 105, 115, 116, 115 >>
B_if_exists == << 105, 102, 95, 101, 120, 105, 115, 116, 115 >>
B_expire_at == << 101, 120, 112, 105, 114, 101, 95, 97, 116 >>
B_expire_after == << 101, 120, 112, 105, 114, 101, 95, 97, 102, 116, 101, 114 >>

\* str::from_utf8 succeeds on ASCII; the bytes 0x80..0xFF modelled here
\* (0xFF) never occur in well-formed UTF-8
IsUtf8(b) == \A i \in 1..Len(b) : b[i] < 128

----------------------------------------------------------------------------
(* Frame: src/src/frame.rs *)

\* A frame is the pair << variant, payload >> (Null has no payload)
FString(b) == << "String", b >>
FInteger(n) == << "Integer", n >>
FBoolean(b) == << "Boolean", b >>
FNull == << "Null" >>
FArray(s) == << "Array", s >>
FMap(s) == << "Map", s >>
\* Frame::Error(Bytes::from(error.to_string())): the payload is the text of
\* the error e, kept here as the error value itself
FError(e) == << "Error", e >>
FType(f) == f[1]
FVal(f) == f[2]

----------------------------------------------------------------------------
(* Value and Keyspace: src/src/db.rs *)

EXPIRING_EVICTOR_SAMPLE_SIZE == 5
MAX_MEMORY_EVICTOR_SAMPLE_SIZE == 3

\* Value::new(data, expire_at) at time t (Instant::now() is read off the
\* model clock)
ValueNew(data, expire_at, t) ==
    [data |-> data, last_accessed |-> t, expire_at |-> expire_at]

\* Value::touch
Touch(val, t) == [val EXCEPT !.last_accessed = t]

\* Keyspace::new
KeyspaceNew(evictor) ==
    [store |-> EmptyMap, expiring |-> EmptyMap, evictor |-> evictor]

\* Every Keyspace operation takes the keyspace ks and the clock t and yields
\* [ks |-> the keyspace afterwards, res |-> the Result<Frame, _> returned].

\* Keyspace::set
KsSet(ks, key, value, expire_at, t) ==
    LET st == HmInsert(ks.store, key, ValueNew(value, expire_at, t))
        ex == IF IsSome(expire_at)
                THEN HmInsert(ks.expiring, key, Unwrap(expire_at))
                ELSE ks.expiring
    IN [ks |-> [ks EXCEPT !.store = st, !.expiring = ex],
        res |-> Ok(FBoolean(TRUE))]

\* KsSetIfNotExists below without its test: it writes whether or not the
\* key is present
KsSetIfNotExists_Overwrites(ks, key, value, expire_at, t) ==
    KsSet(ks, key, value, expire_at, t)

\* Keyspace::set_if_not_exists (run with no other operation in between)
KsSetIfNotExists(ks, key, value, expire_at, t) ==
    IF HmContains(ks.store, key)
      THEN [ks |-> ks, res |-> Ok(FBoolean(FALSE))]
      ELSE KsSet(ks, key, value, expire_at, t)

\* Keyspace::set_if_exists (run with no other operation in between)
KsSetIfExists(ks, key, value, expire_at, t) ==
    IF ~HmContains(ks.store, key)
      THEN [ks |-> ks, res |-> Ok(FBoolean(FALSE))]
      ELSE KsSet(ks, key, value, expire_at, t)

\* Keyspace::get
KsGet(ks, key, t) ==
    IF HmContains(ks.store, key)
      THEN LET val == Touch(ks.store[key], t)
           IN IF IsSome(val.expire_at) /\ Unwrap(val.expire_at) < t
                THEN [ks |-> [ks EXCEPT !.store = HmRemove(ks.store, key)],
                      res |-> Ok(FNull)]
                ELSE [ks |-> [ks EXCEPT !.store = HmInsert(ks.store, key, val)],
                      res |-> Ok(FString(val.data))]
      ELSE [ks |-> ks, res |-> Ok(FNull)]

\* KsDel with the removal lost: the answer is computed, the entry stays
KsDel_KeepsEntry(ks, key) ==
    [ks |-> ks, res |-> Ok(FBoolean(HmContains(ks.store, key)))]

\* Keyspace::del
KsDel(ks, key) ==
    [ks |-> [ks EXCEPT !.store = HmRemove(ks.store, key)],
     res |-> Ok(FBoolean(HmContains(ks.store, key)))]

\* Keyspace::count
KsCount(ks) ==
    [ks |-> ks, res |-> Ok(FInteger(Cardinality(DOMAIN ks.store)))]

\* ((expiry - current_time) * 1000) as i64, for expiry > current_time.  The
\* product is taken in u64 and cast to i64; both are the identity while
\* (expiry - current_time) * 1000 < 2^63, which covers every clock value and
\* expire_at the specifications below draw.
TtlMillis(expiry, t) == (expiry - t) * 1000

\* KsTtl with the expiry test of get (expiry < current_time) in place of its
\* own (expiry <= current_time)
KsTtl_StrictExpiry(ks, key, t) ==
    IF HmContains(ks.store, key)
      THEN LET val == Touch(ks.store[key], t)
           IN IF IsSome(val.expire_at)
                THEN IF Unwrap(val.expire_at) < t
                       THEN [ks |-> [ks EXCEPT !.store = HmRemove(ks.store, key)],
                             res |-> Ok(FNull)]
                       ELSE [ks |-> [ks EXCEPT !.store = HmInsert(ks.store, key, val)],
                             res |-> Ok(FInteger(TtlMillis(Unwrap(val.expire_at), t)))]
                ELSE [ks |-> [ks EXCEPT !.store = HmInsert(ks.store, key, val)],
                      res |-> Ok(FNull)]
      ELSE [ks |-> ks, res |-> Ok(FNull)]

\* Keyspace::ttl
KsTtl(ks, key, t) ==
    IF HmContains(ks.store, key)
      THEN LET val == Touch(ks.store[key], t)
           IN IF IsSome(val.expire_at)
                THEN IF Unwrap(val.expire_at) <= t
                       THEN [ks |-> [ks EXCEPT !.store = HmRemove(ks.store, key)],
                             res |-> Ok(FNull)]
                       ELSE [ks |-> [ks EXCEPT !.store = HmInsert(ks.store, key, val)],
                             res |-> Ok(FInteger(TtlMillis(Unwrap(val.expire_at), t)))]
                ELSE [ks |-> [ks EXCEPT !.store = HmInsert(ks.store, key, val)],
                      res |-> Ok(FNull)]
      ELSE [ks |-> ks, res |-> Ok(FNull)]

\* KsSweep below with the test `expiry < current_time`: an entry that
\* expires this very second is kept
KsSweep_StrictExpiry(ks, S, t) ==
    LET expired == {k \in S : ks.expiring[k] < t}
    IN [ks EXCEPT
          !.store = [x \in (DOMAIN ks.store) \ expired |-> ks.store[x]],
          !.expiring = [x \in (DOMAIN ks.expiring) \ expired |-> ks.expiring[x]]]

\* One tick of the expiring evictor over the sampled keys S (the first
\* EXPIRING_EVICTOR_SAMPLE_SIZE entries of expiring in iteration order)
KsSweep(ks, S, t) ==
    LET expired == {k \in S : ks.expiring[k] <= t}
    IN [ks EXCEPT
          !.store = [x \in (DOMAIN ks.store) \ expired |-> ks.store[x]],
          !.expiring = [x \in (DOMAIN ks.expiring) \ expired |-> ks.expiring[x]]]

\* The samples the iteration order of a HashMap m can produce: any n entries
Samples(m, n) ==
    {S \in SUBSET (DOMAIN m) : Cardinality(S) = Min(n, Cardinality(DOMAIN m))}

\* KsEvictLru below with the comparison turned round: an entry of greatest
\* last_accessed is evicted
KsEvictLru_MostRecent(ks, S, t) ==
    LET most == {k \in S : /\ ks.store[k].last_accessed < t
                           /\ \A j \in S : ks.store[k].last_accessed
                                             >= ks.store[j].last_accessed}
    IN IF most = {} THEN {ks}
       ELSE {[ks EXCEPT !.store = HmRemove(ks.store, k)] : k \in most}

\* One tick of the max-memory evictor with policy Lru over the sample S, at
\* Instant t: the keyspaces it can leave.  The loop keeps the first entry
\* whose last_accessed is below every earlier one and below Instant::now();
\* with the iteration order free, that is any entry of least last_accessed.
KsEvictLru(ks, S, t) ==
    LET least == {k \in S : /\ ks.store[k].last_accessed < t
                            /\ \A j \in S : ks.store[k].last_accessed
                                              <= ks.store[j].last_accessed}
    IN IF least = {} THEN {ks}
       ELSE {[ks EXCEPT !.store = HmRemove(ks.store, k)] : k \in least}

\* the same with policy Random: the last key of the sample is evicted
KsEvictRandom(ks, S) ==
    IF S = {} THEN {ks}
    ELSE {[ks EXCEPT !.store = HmRemove(ks.store, k)] : k \in S}

----------------------------------------------------------------------------
(* Command: src/src/command.rs *)

CmdCreate(ks, evictor, ine) ==
    [c |-> "Create", keyspace |-> ks, evictor |-> evictor, if_not_exists |-> ine]
CmdSet(ks, key, value, expire_at, ie, ine) ==
    [c |-> "Set", keyspace |-> ks, key |-> key, value |-> value,
     expire_at |-> expire_at, if_not_exists |-> ine, if_exists |-> ie]
CmdGet(ks, key) == [c |-> "Get", keyspace |-> ks, key |-> key]
CmdDel(ks, key) == [c |-> "Del", keyspace |-> ks, key |-> key]
CmdDrop(ks, ie) == [c |-> "Drop", keyspace |-> ks, if_exists |-> ie]
CmdCount(ks) == [c |-> "Count", keyspace |-> ks]
CmdTtl(ks, key) == [c |-> "Ttl", keyspace |-> ks, key |-> key]
CmdPing == [c |-> "Ping"]
CmdKeyspaces == [c |-> "Keyspaces"]

\* ParseCommandError
InvalidFormat == [e |-> "InvalidFormat", args |-> << >>]
WrongArgCount(cmd) == [e |-> "WrongArgCount", args |-> << cmd >>]
InvalidArg(arg, cmd) == [e |-> "InvalidArg", args |-> << arg, cmd >>]
InvalidArgValue(value, arg, cmd) ==
    [e |-> "InvalidArgValue", args |-> << value, arg, cmd >>]
UnknownCommand(cmd) == [e |-> "UnknownCommand", args |-> << cmd >>]
Utf8Error == [e |-> "Utf8Error", args |-> << >>]
\* an index out of bounds: the thread panics, nothing is returned
Panic == [ok |-> FALSE, err |-> [e |-> "panic", args |-> << >>]]
IsPanic(r) == ~r.ok /\ r.err.e = "panic"

\* str::to_lowercase on ASCII
ToLowercase(b) ==
    [i \in 1..Len(b) |-> IF b[i] >= 65 /\ b[i] <= 90 THEN b[i] + 32 ELSE b[i]]

\* str::parse::<u64>: an optional '+', then one or more decimal digits.
\* Defined for up to nine digits, which the model's integers hold exactly;
\* the specifications draw no longer numeral.
IsDigits(b) == Len(b) > 0 /\ \A i \in 1..Len(b) : b[i] >= 48 /\ b[i] <= 57
RECURSIVE DigitsValue(_)
DigitsValue(b) ==
    IF Len(b) = 0 THEN 0
    ELSE DigitsValue(SubSeq(b, 1, Len(b) - 1)) * 10 + (b[Len(b)] - 48)
ParseU64(b) ==
    LET d == IF Len(b) > 0 /\ b[1] = 43 THEN Tail(b) ELSE b
    IN IF IsDigits(d) THEN Some(DigitsValue(d)) ELSE None

\* the String payload of token f, decoded and lower-cased, as parse_args and
\* parse_flags read it
TokenWord(f) ==
    IF FType(f) # "String" THEN Err(InvalidFormat)
    ELSE IF ~IsUtf8(FVal(f)) THEN Err(Utf8Error)
    ELSE Ok(ToLowercase(FVal(f)))

\* Create::parse_args, from index idx (1-based) with the evictor so far
RECURSIVE CreateParseArgsFrom(_, _, _)
CreateParseArgsFrom(args, idx, evictor) ==
    IF idx > Len(args) THEN Ok(evictor)
    ELSE LET key == TokenWord(args[idx])
         IN IF ~key.ok THEN key
            ELSE IF idx + 1 > Len(args) THEN Panic
            ELSE LET value == TokenWord(args[idx + 1])
                 IN IF ~value.ok THEN value
                    ELSE IF key.val = B_evictor
                      THEN IF value.val \in {B_nop, B_random, B_lru}
                             THEN CreateParseArgsFrom(args, idx + 2,
                                    CASE value.val = B_nop -> "Nop"
                                      [] value.val = B_random -> "Random"
                                      [] value.val = B_lru -> "Lru")
                             ELSE Err(InvalidArgValue(value.val, key.val, B_create))
                      ELSE Err(InvalidArg(key.val, B_create))
CreateParseArgs(args) == CreateParseArgsFrom(args, 1, "Nop")

\* Create::parse_flags, from index idx with if_not_exists so far
RECURSIVE CreateParseFlagsFrom(_, _, _)
CreateParseFlagsFrom(flags, idx, ine) ==
    IF idx > Len(flags) THEN Ok(ine)
    ELSE LET key == TokenWord(flags[idx])
         IN IF ~key.ok THEN key
            ELSE IF key.val = B_if_not_exists
              THEN IF ~ine THEN CreateParseFlagsFrom(flags, idx + 1, TRUE)
                           ELSE Err(InvalidFormat)
              ELSE Err(InvalidArg(key.val, B_create))
CreateParseFlags(flags) == CreateParseFlagsFrom(flags, 1, FALSE)

\* Create::parse on the tokens a that follow the command name
CreateParse(a) ==
    IF Len(a) = 0 THEN Err(WrongArgCount(B_create))
    ELSE IF FType(a[1]) # "String" THEN Err(InvalidFormat)
    ELSE IF Len(a) = 1 THEN Ok(CmdCreate(FVal(a[1]), "Nop", FALSE))
    ELSE IF FType(a[2]) # "Map" THEN Err(InvalidFormat)
    ELSE LET evictor == CreateParseArgs(FVal(a[2]))
         IN IF ~evictor.ok THEN evictor
            ELSE IF Len(a) = 2 THEN Ok(CmdCreate(FVal(a[1]), evictor.val, FALSE))
            ELSE IF FType(a[3]) # "Array" THEN Err(InvalidFormat)
            ELSE LET ine == CreateParseFlags(FVal(a[3]))
                 IN IF ~ine.ok THEN ine
                    ELSE IF Len(a) > 3 THEN Err(WrongArgCount(B_create))
                    ELSE Ok(CmdCreate(FVal(a[1]), evictor.val, ine.val))

\* Set::parse_args, from index idx with (expire_at, expire_after) so far
RECURSIVE SetParseArgsFrom(_, _, _, _)
SetParseArgsFrom(args, idx, expire_at, expire_after) ==
    IF idx > Len(args) THEN Ok(<< expire_at, expire_after >>)
    ELSE LET key == TokenWord(args[idx])
         IN IF ~key.ok THEN key
            ELSE IF idx + 1 > Len(args) THEN Panic
            ELSE LET value == TokenWord(args[idx + 1])
                 IN IF ~value.ok THEN value
                    ELSE IF key.val = B_expire_at
                      THEN IF ~IsSome(expire_at)
                             THEN IF IsSome(ParseU64(value.val))
                                    THEN SetParseArgsFrom(args, idx + 2,
                                           ParseU64(value.val), expire_after)
                                    ELSE Err(InvalidArgValue(value.val, key.val, B_set))
                             ELSE Err(InvalidFormat)
                    ELSE IF key.val = B_expire_after
                      THEN IF ~IsSome(expire_after)
                             THEN IF IsSome(ParseU64(value.val))
                                    THEN SetParseArgsFrom(args, idx + 2,
                                           expire_at, ParseU64(value.val))
                                    ELSE Err(InvalidArgValue(value.val, key.val, B_set))
                             ELSE Err(InvalidFormat)
                    ELSE Err(InvalidArg(key.val, B_set))
\* SetParseArgs below had it dropped expire_after when expire_at is given too
SetParseArgs_KeepsExpireAt(args) ==
    LET r == SetParseArgsFrom(args, 1, None, None)
    IN IF r.ok /\ IsSome(r.val[1]) THEN Ok(<< r.val[1], None >>) ELSE r
SetParseArgs(args) == SetParseArgsFrom(args, 1, None, None)

\* Set::parse_flags, from index idx with (if_exists, if_not_exists) so far
RECURSIVE SetParseFlagsFrom(_, _, _, _)
SetParseFlagsFrom(flags, idx, ie, ine) ==
    IF idx > Len(flags) THEN Ok(<< ie, ine >>)
    ELSE LET key == TokenWord(flags[idx])
         IN IF ~key.ok THEN key
            ELSE IF key.val = B_if_exists
              THEN IF ~ie THEN SetParseFlagsFrom(flags, idx + 1, TRUE, ine)
                          ELSE Err(InvalidFormat)
            ELSE IF key.val = B_if_not_exists
              THEN IF ~ine THEN SetParseFlagsFrom(flags, idx + 1, ie, TRUE)
                           ELSE Err(InvalidFormat)
            ELSE Err(InvalidArg(key.val, B_set))
SetParseFlags(flags) == SetParseFlagsFrom(flags, 1, FALSE, FALSE)

\* SystemTime::now().add(Duration::from_millis(d)).duration_since(UNIX_EPOCH)
\* .as_secs(), the clock reading t seconds and ms milliseconds
ExpireAfter(d, t, ms) == t + ((ms + d) \div 1000)

\* Set::parse on the tokens a that follow the command name
SetParse(a, t, ms) ==
    IF Len(a) < 3 THEN
        IF \E i \in 1..Len(a) : FType(a[i]) # "String" /\
              \A j \in 1..(i - 1) : FType(a[j]) = "String"
          THEN Err(InvalidFormat)
          ELSE Err(WrongArgCount(B_set))
    ELSE IF \E i \in 1..3 : FType(a[i]) # "String" THEN Err(InvalidFormat)
    ELSE LET base == CmdSet(FVal(a[1]), FVal(a[2]), FVal(a[3]), None, FALSE, FALSE)
         IN IF Len(a) = 3 THEN Ok(base)
            ELSE IF FType(a[4]) # "Map" THEN Err(InvalidFormat)
            ELSE LET ex == SetParseArgs(FVal(a[4]))
                 IN IF ~ex.ok THEN ex
                    ELSE IF IsSome(ex.val[1]) /\ IsSome(ex.val[2]) THEN Err(InvalidFormat)
                    ELSE LET expire_at ==
                                 IF IsSome(ex.val[1]) THEN ex.val[1]
                                 ELSE IF IsSome(ex.val[2])
                                   THEN Some(ExpireAfter(Unwrap(ex.val[2]), t, ms))
                                   ELSE None
                             withExp == [base EXCEPT !.expire_at = expire_at]
                         IN IF Len(a) = 4 THEN Ok(withExp)
                            ELSE IF FType(a[5]) # "Array" THEN Err(InvalidFormat)
                            ELSE LET fl == SetParseFlags(FVal(a[5]))
                                 IN IF ~fl.ok THEN fl
                                    ELSE IF fl.val[1] /\ fl.val[2] THEN Err(InvalidFormat)
                                    ELSE IF Len(a) > 5 THEN Err(WrongArgCount(B_set))
                                    ELSE Ok([withExp EXCEPT
                                               !.if_exists = fl.val[1],
                                               !.if_not_exists = fl.val[2]])

\* Get::parse, Del::parse, Ttl::parse: <keyspace> <key>, nothing more
TwoArgParse(a, name) ==
    IF Len(a) = 0 THEN Err(WrongArgCount(name))
    ELSE IF FType(a[1]) # "String" THEN Err(InvalidFormat)
    ELSE IF Len(a) = 1 THEN Err(WrongArgCount(name))
    ELSE IF FType(a[2]) # "String" THEN Err(InvalidFormat)
    ELSE IF Len(a) > 2 THEN Err(WrongArgCount(name))
    ELSE Ok(<< FVal(a[1]), FVal(a[2]) >>)
GetParse(a) ==
    LET r == TwoArgParse(a, B_get)
    IN IF r.ok THEN Ok(CmdGet(r.val[1], r.val[2])) ELSE r
DelParse(a) ==
    LET r == TwoArgParse(a, B_del)
    IN IF r.ok THEN Ok(CmdDel(r.val[1], r.val[2])) ELSE r
TtlParse(a) ==
    LET r == TwoArgParse(a, B_ttl)
    IN IF r.ok THEN Ok(CmdTtl(r.val[1], r.val[2])) ELSE r

\* Drop::parse_flags, from index idx with if_exists so far
RECURSIVE DropParseFlagsFrom(_, _, _)
DropParseFlagsFrom(flags, idx, ie) ==
    IF idx > Len(flags) THEN Ok(ie)
    ELSE LET key == TokenWord(flags[idx])
         IN IF ~key.ok THEN key
            ELSE IF key.val = B_if_exists
              THEN IF ~ie THEN DropParseFlagsFrom(flags, idx + 1, TRUE)
                          ELSE Err(InvalidFormat)
              ELSE Err(InvalidArg(key.val, B_create))
DropParseFlags(flags) == DropParseFlagsFrom(flags, 1, FALSE)

\* Drop::parse
DropParse(a) ==
    IF Len(a) = 0 THEN Err(WrongArgCount(B_drop))
    ELSE IF FType(a[1]) # "String" THEN Err(InvalidFormat)
    ELSE IF Len(a) = 1 THEN Ok(CmdDrop(FVal(a[1]), FALSE))
    ELSE IF FType(a[2]) # "Array" THEN Err(InvalidFormat)
    ELSE LET ie == DropParseFlags(FVal(a[2]))
         IN IF ~ie.ok THEN ie
            ELSE IF Len(a) > 2 THEN Err(WrongArgCount(B_drop))
            ELSE Ok(CmdDrop(FVal(a[1]), ie.val))

\* Count::parse
CountParse(a) ==
    IF Len(a) = 0 THEN Err(WrongArgCount(B_count))
    ELSE IF FType(a[1]) # "String" THEN Err(InvalidFormat)
    ELSE IF Len(a) > 1 THEN Err(WrongArgCount(B_count))
    ELSE Ok(CmdCount(FVal(a[1])))

\* command::parse, the clock reading t seconds and ms milliseconds
CommandParse(frame, t, ms) ==
    IF FType(frame) # "Array" THEN Err(InvalidFormat)
    ELSE LET tokens == FVal(frame)
         IN IF Len(tokens) = 0 THEN Err(InvalidFormat)
            ELSE IF FType(tokens[1]) # "String" THEN Err(InvalidFormat)
            ELSE IF ~IsUtf8(FVal(tokens[1])) THEN Err(Utf8Error)
            ELSE LET command == ToLowercase(FVal(tokens[1]))
                     a == Tail(tokens)
                 IN CASE command = B_create -> CreateParse(a)
                      [] command = B_set -> SetParse(a, t, ms)
                      [] command = B_get -> GetParse(a)
                      [] command = B_del -> DelParse(a)
                      [] command = B_drop -> DropParse(a)
                      [] command = B_count -> CountParse(a)
                      [] command = B_ttl -> TtlParse(a)
                      [] command = B_ping -> Ok(CmdPing)
                      [] command = B_keyspaces -> Ok(CmdKeyspaces)
                      [] OTHER -> Err(UnknownCommand(command))


----------------------------------------------------------------------------
(* Db: src/src/db.rs *)

\* A Db is [keyspaces: HashMap<Bytes, instance>, heap: instance -> Keyspace,
\* server_max_memory].  The registry owns each Keyspace; heap keeps the
\* store and expiring maps of every keyspace instance ever created, because
\* the evictor tasks of an instance hold Arc clones of both maps and so keep
\* them alive after the registry entry is gone.
\* Background tasks are named <<"exp", i>> (expiring evictor of instance i),
\* <<"mem", i>> (max-memory evictor of instance i), <<"conn", c>> and
\* <<"mon">>; wait-group tokens are named by their holder: a task, the
\* Keyspace struct <<"ks", i>>, the Db struct <<"db">>.

\* Db::new
DbNew(server_max_memory) ==
    [keyspaces |-> EmptyMap, heap |-> EmptyMap,
     server_max_memory |-> server_max_memory]

\* A Db operation yields [db, res, spawn, release]: the Db afterwards, the
\* Result returned, the tasks spawned (each with a wait-group token of its
\* own) and the wait-group tokens taken (+) and released (-) by structs.
Outcome(db, res) ==
    [db |-> db, res |-> res, spawn |-> {}, take |-> {}, release |-> {}]

\* An error value is [e |-> the variant, args |-> its strings].
\* ExecuteCommandError::KeyspaceExists / KeyspaceDoesNotExist carry
\* str::from_utf8(name)?: a name that is not UTF-8 yields Utf8Error instead
KeyspaceExists(name) ==
    IF IsUtf8(name) THEN [e |-> "KeyspaceExists", args |-> << name >>]
                    ELSE [e |-> "Utf8Error", args |-> << >>]
KeyspaceDoesNotExist(name) ==
    IF IsUtf8(name) THEN [e |-> "KeyspaceDoesNotExist", args |-> << name >>]
                    ELSE [e |-> "Utf8Error", args |-> << >>]

\* EvictorTasks below with the max-memory evictor spawned for every
\* keyspace, whatever its evictor and the threshold
EvictorTasks_AlwaysMaxMemory(i, evictor, server_max_memory) ==
    {<< "exp", i >>, << "mem", i >>}

\* the tasks Keyspace::start_expiring_evictor and start_max_memory_evictor
\* spawn for instance i with the given evictor
EvictorTasks(i, evictor, server_max_memory) ==
    {<< "exp", i >>} \cup
    (IF server_max_memory > 0 /\ evictor # "Nop" THEN {<< "mem", i >>} ELSE {})

\* Db::exec_create
ExecCreate(db, cmd) ==
    IF HmContains(db.keyspaces, cmd.keyspace)
      THEN IF cmd.if_not_exists
             THEN Outcome(db, Ok(FBoolean(FALSE)))
             ELSE Outcome(db, Err(KeyspaceExists(cmd.keyspace)))
      ELSE LET i == Cardinality(DOMAIN db.heap) + 1
           IN [db |-> [db EXCEPT
                         !.keyspaces = HmInsert(db.keyspaces, cmd.keyspace, i),
                         !.heap = HmInsert(db.heap, i, KeyspaceNew(cmd.evictor))],
               res |-> Ok(FBoolean(TRUE)),
               spawn |-> EvictorTasks(i, cmd.evictor, db.server_max_memory),
               take |-> {<< "ks", i >>},
               release |-> {}]

\* Db::exec_drop
ExecDrop(db, cmd) ==
    IF ~HmContains(db.keyspaces, cmd.keyspace)
      THEN IF cmd.if_exists
             THEN Outcome(db, Ok(FBoolean(FALSE)))
             ELSE Outcome(db, Err(KeyspaceDoesNotExist(cmd.keyspace)))
      ELSE [db |-> [db EXCEPT !.keyspaces = HmRemove(db.keyspaces, cmd.keyspace)],
            res |-> Ok(FBoolean(TRUE)),
            spawn |-> {},
            take |-> {},
            release |-> {<< "ks", db.keyspaces[cmd.keyspace] >>}]

\* Db::exec_keyspaces: one String frame per name, in iteration order; the
\* order is the one CHOOSE fixes
RECURSIVE SetToSeq(_)
SetToSeq(S) ==
    IF S = {} THEN << >>
    ELSE LET x == CHOOSE y \in S : TRUE IN << x >> \o SetToSeq(S \ {x})
ExecKeyspaces(db) ==
    LET names == SetToSeq(DOMAIN db.keyspaces)
    IN Outcome(db, Ok(FArray([n \in 1..Len(names) |-> FString(names[n])])))

\* as OnKeyspace, but the operation's keyspace replaces every instance
OnKeyspace_EveryInstance(db, name, r) ==
    Outcome([db EXCEPT !.heap = [i \in DOMAIN db.heap |-> r.ks]], r.res)

\* the part common to exec_set, exec_get, exec_del, exec_count, exec_ttl:
\* look the keyspace up under the read lock, run the operation on it
OnKeyspace(db, name, r) ==
    Outcome([db EXCEPT !.heap[db.keyspaces[name]] = r.ks], r.res)

\* Db::exec_set
ExecSet(db, cmd, t) ==
    IF HmContains(db.keyspaces, cmd.keyspace)
      THEN LET ks == db.heap[db.keyspaces[cmd.keyspace]]
           IN IF cmd.if_exists \/ cmd.if_not_exists
                THEN IF cmd.if_exists
                       THEN OnKeyspace(db, cmd.keyspace,
                              KsSetIfExists(ks, cmd.key, cmd.value, cmd.expire_at, t))
                       ELSE OnKeyspace(db, cmd.keyspace,
                              KsSetIfNotExists(ks, cmd.key, cmd.value, cmd.expire_at, t))
                ELSE OnKeyspace(db, cmd.keyspace,
                       KsSet(ks, cmd.key, cmd.value, cmd.expire_at, t))
      ELSE Outcome(db, Err(KeyspaceDoesNotExist(cmd.keyspace)))

\* Db::exec_get
ExecGet(db, cmd, t) ==
    IF HmContains(db.keyspaces, cmd.keyspace)
      THEN OnKeyspace(db, cmd.keyspace,
             KsGet(db.heap[db.keyspaces[cmd.keyspace]], cmd.key, t))
      ELSE Outcome(db, Err(KeyspaceDoesNotExist(cmd.keyspace)))

\* Db::exec_del
ExecDel(db, cmd) ==
    IF HmContains(db.keyspaces, cmd.keyspace)
      THEN OnKeyspace(db, cmd.keyspace,
             KsDel(db.heap[db.keyspaces[cmd.keyspace]], cmd.key))
      ELSE Outcome(db, Err(KeyspaceDoesNotExist(cmd.keyspace)))

\* Db::exec_count
ExecCount(db, cmd) ==
    IF HmContains(db.keyspaces, cmd.keyspace)
      THEN OnKeyspace(db, cmd.keyspace,
             KsCount(db.heap[db.keyspaces[cmd.keyspace]]))
      ELSE Outcome(db, Err(KeyspaceDoesNotExist(cmd.keyspace)))

\* Db::exec_ttl
ExecTtl(db, cmd, t) ==
    IF HmContains(db.keyspaces, cmd.keyspace)
      THEN OnKeyspace(db, cmd.keyspace,
             KsTtl(db.heap[db.keyspaces[cmd.keyspace]], cmd.key, t))
      ELSE Outcome(db, Err(KeyspaceDoesNotExist(cmd.keyspace)))

\* Db::execute
Execute(db, cmd, t) ==
    CASE cmd.c = "Create" -> ExecCreate(db, cmd)
      [] cmd.c = "Drop" -> ExecDrop(db, cmd)
      [] cmd.c = "Keyspaces" -> ExecKeyspaces(db)
      [] cmd.c = "Set" -> ExecSet(db, cmd, t)
      [] cmd.c = "Ping" -> Outcome(db, Ok(FString(B_PONG)))
      [] cmd.c = "Get" -> ExecGet(db, cmd, t)
      [] cmd.c = "Del" -> ExecDel(db, cmd)
      [] cmd.c = "Count" -> ExecCount(db, cmd)
      [] cmd.c = "Ttl" -> ExecTtl(db, cmd, t)

----------------------------------------------------------------------------
(* State *)

VARIABLES
    db,          \* the Db: registry, keyspace instances, server_max_memory
    tasks,       \* spawned task -> "running" | "exited"
    wg,          \* holders of a clone of the WaitGroup (Server.wg excluded)
    now,         \* the clock, in seconds
    last,        \* the latest Db operation: command name, key, result
    ref,         \* reference map kept beside the keyspace (history variable)
    srv,         \* where Server::start is
    doneClosed,  \* done_tx has been dropped: every done.recv() returns
    conns,       \* connection -> state of its ConnectionHandler::handle
    thr,         \* thread -> the Keyspace call it is in and where in it
    locks,       \* the holders of the store and expiring mutexes
    cframe,      \* codec: the frame handed to write_frame, if any
    wire,        \* codec: what write_frame did: the bytes on the stream
    pres,        \* codec: what frame::parse did with a buffer
    rbuf,        \* read_frame: the bytes in Connection.buf
    rin,         \* read_frame: the bytes the peer sends before closing
    rres         \* read_frame: what it returned, if it has

vars == << db, tasks, wg, now, last, ref, srv, doneClosed, conns,
           thr, locks, cframe, wire, pres, rbuf, rin, rres >>

\* the variables of the lock-level, codec and read_frame specifications
extVars == << thr, locks, cframe, wire, pres, rbuf, rin, rres >>

\* their values where those parts are not exercised
ExtIdle ==
    /\ thr = << >>
    /\ locks = << >>
    /\ cframe = << >>
    /\ wire = << >>
    /\ pres = << >>
    /\ rbuf = << >>
    /\ rin = << >>
    /\ rres = << >>

srvVars == << srv, doneClosed, conns, extVars >>

Keys == {B_k1, B_k2}
Vals == {B_v1, B_v2}
ExpireAts == {None} \cup {Some(t) : t \in 0..MaxTime}

NoOp == [c |-> "None", key |-> << >>, res |-> Ok(FNull)]
OpOf(cmd, res) ==
    [c |-> cmd.c,
     key |-> IF cmd.c \in {"Set", "Get", "Del", "Ttl"} THEN cmd.key ELSE << >>,
     res |-> res]

----------------------------------------------------------------------------
(* The keyspace specification: one keyspace "a", created on a fresh Db with
   max_memory = 0, and the operations of Keyspace called through Db::execute *)

\* the commands a client may send to keyspace "a"
KsCommands ==
    {CmdSet(B_a, k, v, e, f[1], f[2]) :
        k \in Keys, v \in Vals, e \in ExpireAts,
        f \in {<< FALSE, FALSE >>, << TRUE, FALSE >>, << FALSE, TRUE >>}}
    \cup {CmdGet(B_a, k) : k \in Keys}
    \cup {CmdDel(B_a, k) : k \in Keys}
    \cup {CmdTtl(B_a, k) : k \in Keys}
    \cup {CmdCount(B_a)}

\* The reference map of the set/get/del sequences without TTL: followed
\* while every operation so far is a plain set without TTL, a get, a del or
\* a count; given up (None) at the first other operation.
RefNext(r, cmd) ==
    IF ~IsSome(r) THEN None
    ELSE CASE cmd.c = "Set" ->
                 IF cmd.if_exists \/ cmd.if_not_exists \/ IsSome(cmd.expire_at)
                   THEN None
                   ELSE Some(HmInsert(Unwrap(r), cmd.key, cmd.value))
           [] cmd.c = "Del" -> Some(HmRemove(Unwrap(r), cmd.key))
           [] cmd.c \in {"Get", "Count"} -> r
           [] OTHER -> None

InitKs ==
    LET r == ExecCreate(DbNew(0), CmdCreate(B_a, "Nop", FALSE))
    IN /\ db = r.db
       /\ tasks = [x \in r.spawn |-> "running"]
       /\ wg = {<< "db" >>} \cup r.take \cup r.spawn
       /\ now = 0
       /\ last = NoOp
       /\ ref = Some(EmptyMap)
       /\ srv = "running"
       /\ doneClosed = FALSE
       /\ conns = << >>
       /\ ExtIdle

\* a client operation, run to completion
Op(cmd) ==
    LET r == Execute(db, cmd, now)
    IN /\ db' = r.db
       /\ last' = OpOf(cmd, r.res)
       /\ ref' = RefNext(ref, cmd)
       /\ UNCHANGED << tasks, wg, now, srvVars >>

\* one tick of the expiring evictor of instance i (the 500 ms sleep won the
\* select!): lock expiring, lock store, sweep the sample
ExpiringEvictorTick(i) ==
    /\ << "exp", i >> \in DOMAIN tasks
    /\ tasks[<< "exp", i >>] = "running"
    /\ \E S \in Samples(db.heap[i].expiring, EXPIRING_EVICTOR_SAMPLE_SIZE) :
          db' = [db EXCEPT !.heap[i] = KsSweep(db.heap[i], S, now)]
    /\ last' = NoOp
    /\ UNCHANGED << tasks, wg, now, ref, srvVars >>

\* a second passes
Tick ==
    /\ now < MaxTime
    /\ now' = now + 1
    /\ last' = NoOp
    /\ UNCHANGED << db, tasks, wg, ref, srvVars >>

NextKs ==
    \/ \E cmd \in KsCommands : Op(cmd)
    \/ ExpiringEvictorTick(1)
    \/ Tick

Spec == InitKs /\ [][NextKs]_vars

----------------------------------------------------------------------------
(* Claims about the keyspace, under Spec *)

\* the one keyspace of Spec
KsA == db.heap[1]

\* what get(k) returns on a reference map m
RefGet(m, k) == IF k \in DOMAIN m THEN Ok(FString(m[k])) ELSE Ok(FNull)

\* C1: over any sequence of plain set (no TTL), get, del and count
\* operations the keyspace answers like a reference map: get(k) returns
\* String(v) for the latest set(k, v) not followed by del(k) and Null
\* otherwise, and count() returns the number of keys holding a value.  It is
\* stated of the results the operations returned (last) and of the results
\* a get or count would return in the current state.
C1_ReferenceMap ==
    IsSome(ref) =>
        LET m == Unwrap(ref)
        IN /\ \A k \in Keys : KsGet(KsA, k, now).res = RefGet(m, k)
           /\ KsCount(KsA).res = Ok(FInteger(Cardinality(DOMAIN m)))
           /\ last.c = "Get" => last.res = RefGet(m, last.key)
           /\ last.c = "Count" => last.res = Ok(FInteger(Cardinality(DOMAIN m)))

\* C1 witness: after set(k1, v1), set(k2, _), set(k1, v2), del(k2) without
\* TTL a get(k1) has returned String(v2) and one key is left
C1_Witness ==
    /\ IsSome(ref)
    /\ last.c = "Get" /\ last.key = B_k1 /\ last.res = Ok(FString(B_v2))
    /\ Unwrap(ref) = [k \in {B_k1} |-> B_v2]
    /\ now > 0

\* C2 (as claimed): a get(k) of a key stored with expire_at = t, t <= now,
\* returns Null and removes k from store.
C2_GetExpiredReturnsNull ==
    [][\A k \in Keys :
          (/\ last'.c = "Get" /\ last'.key = k
           /\ HmContains(KsA.store, k)
           /\ IsSome(KsA.store[k].expire_at)
           /\ Unwrap(KsA.store[k].expire_at) <= now)
          => (/\ last'.res = Ok(FNull)
              /\ ~HmContains(KsA'.store, k))]_vars

C30_EvictsOnlyExpired ==
    [][ExpiringEvictorTick(1) =>
        \A k \in DOMAIN KsA.store \ DOMAIN KsA'.store :
            /\ IsSome(KsA.store[k].expire_at)
            /\ Unwrap(KsA.store[k].expire_at) <= now
    ]_vars

----------------------------------------------------------------------------
(* Server and ConnectionHandler: src/src/server.rs, src/src/connection.rs *)

Str(b) == FString(b)
F_create ==
    FArray(<< Str(B_create), Str(B_a),
              FMap(<< Str(B_evictor), Str(B_random), Str(B_evictor), Str(B_random) >>) >>)
F_drop == FArray(<< Str(B_drop), Str(B_a) >>)
F_set == FArray(<< Str(B_set), Str(B_a), Str(B_k1), Str(B_v1) >>)
F_setttl ==
    FArray(<< Str(B_set), Str(B_a), Str(B_k1), Str(B_v1),
              FMap(<< Str(B_expire_at), Str(<< 48 >>), Str(B_expire_at), Str(<< 48 >>) >>) >>)

\* What frame::parse can return: parse_map takes a header count N only if
\* N % 2 = 0 and then reads N keys and N values, so a Map read off a
\* connection holds a multiple of four frames.
RECURSIVE FromWire(_)
FromWire(f) ==
    CASE FType(f) = "Array" -> \A i \in 1..Len(FVal(f)) : FromWire(FVal(f)[i])
      [] FType(f) = "Map" -> /\ Len(FVal(f)) % 4 = 0
                             /\ \A i \in 1..Len(FVal(f)) : FromWire(FVal(f)[i])
      [] OTHER -> TRUE

\* the request frames clients send in the server specification
ReqFrames ==
    {f \in {F_create, F_drop, F_set, F_setttl} : FromWire(f)}

\* the configured max_memory: disabled (0) or some threshold
MaxMemories == {0, 1}

\* the connections the listener can accept in one run
Conns == {1, 2}

ConnNew ==
    [pc |-> "select",    \* select | got | writing | exited
     buf |-> "empty",    \* the read buffer: empty | partial (an incomplete frame)
     cur |-> FNull,      \* the latest frame read_frame returned
     kind |-> "none",    \* how the latest frame processed fared:
                         \* parse_error | exec_error | result
     resp |-> FNull,     \* the latest frame handed to write_frame
     respNo |-> 0,       \* the number of the request resp answers
     wrote |-> "none",   \* bytes of resp on the stream: none | partial
     nRead |-> 0,        \* frames read
     nWritten |-> 0,     \* frames written in full
     answered |-> 0,     \* the number of the request the latest written frame answers
     exit |-> "none"]    \* how handle ended: Shutdown, Eof, or the error

Exited(c) == c \in DOMAIN conns /\ conns[c].pc = "exited"
Live(c) == c \in DOMAIN conns /\ conns[c].pc # "exited"

\* the wait-group tokens the Db struct and its registered Keyspace structs hold
DbTokens(d) ==
    {<< "db" >>} \cup {<< "ks", d.keyspaces[n] >> : n \in DOMAIN d.keyspaces}

\* tokens released when a holder of Arc<Db> lets go: those of the Db and its
\* keyspaces if it was the last holder (othersHold: another holder remains)
ArcDbDrop(othersHold) == IF othersHold THEN {} ELSE DbTokens(db)

InitSrv ==
    /\ \E m \in MaxMemories : db = DbNew(m)
    /\ tasks = << >>
    /\ wg = {<< "db" >>}
    /\ now = 0
    /\ last = NoOp
    /\ ref = None
    /\ srv = "new"
    /\ doneClosed = FALSE
    /\ conns = << >>
    /\ ExtIdle

\* Server::start up to its accept loop: the system monitor task is spawned
StartServer ==
    /\ srv = "new"
    /\ srv' = "running"
    /\ tasks' = [x \in {<< "mon" >>} |-> "running"]
    /\ wg' = wg \cup {<< "mon" >>}
    /\ UNCHANGED << db, now, last, ref, doneClosed, conns >>
    /\ UNCHANGED extVars

\* accept() yields a connection: its handler task is spawned
Accept(c) ==
    /\ srv = "running"
    /\ c \notin DOMAIN conns
    /\ \A d \in Conns : d < c => d \in DOMAIN conns
    /\ conns' = [x \in (DOMAIN conns) \cup {c} |-> IF x = c THEN ConnNew ELSE conns[x]]
    /\ tasks' = [x \in (DOMAIN tasks) \cup {<< "conn", c >>} |->
                   IF x = << "conn", c >> THEN "running" ELSE tasks[x]]
    /\ wg' = wg \cup {<< "conn", c >>}
    /\ UNCHANGED << db, now, last, ref, srv, doneClosed >>
    /\ UNCHANGED extVars

\* accept() fails: `maybe_connection?` returns the error from start; the
\* Server is dropped (listener, done_tx, its Arc<Db>, its WaitGroup)
AcceptFail ==
    /\ srv = "running"
    /\ srv' = "returned_err"
    /\ doneClosed' = TRUE
    /\ wg' = wg \ ArcDbDrop(\E c \in Conns : Live(c))
    /\ UNCHANGED << db, tasks, now, last, ref, conns >>
    /\ UNCHANGED extVars

\* ctrl_c: drop the listener and done_tx, leave the loop, drop the Arc<Db>
\* and go on to wg.wait()
CtrlC ==
    /\ srv = "running"
    /\ srv' = "waiting"
    /\ doneClosed' = TRUE
    /\ wg' = wg \ ArcDbDrop(\E c \in Conns : Live(c))
    /\ UNCHANGED << db, tasks, now, last, ref, conns >>
    /\ UNCHANGED extVars

\* wg.wait() returns: every other clone of the WaitGroup has been dropped
WaitReturns ==
    /\ srv = "waiting"
    /\ wg = {}
    /\ srv' = "returned_ok"
    /\ UNCHANGED << db, tasks, wg, now, last, ref, doneClosed, conns >>
    /\ UNCHANGED extVars

\* start returned an error: main returns it and the runtime is torn down
Torn == srv = "returned_err"

\* handle returns (or unwinds) in connection c: the task ends and drops its
\* handler (an Arc<Db>) and its WaitGroup clone
HandlerExit(c, why) ==
    /\ conns' = [conns EXCEPT ![c] = [ConnNew EXCEPT !.pc = "exited", !.exit = why,
                                                    !.nRead = conns[c].nRead,
                                                    !.nWritten = conns[c].nWritten,
                                                    !.answered = conns[c].answered]]
    /\ tasks' = [tasks EXCEPT ![<< "conn", c >>] = "exited"]
    /\ wg' = (wg \ {<< "conn", c >>})
               \ ArcDbDrop(srv \in {"new", "running"} \/ \E d \in Conns \ {c} : Live(d))

\* frames read so far over all connections, at most MaxReqs in a run
RECURSIVE SumRead(_)
SumRead(C) ==
    IF C = {} THEN 0
    ELSE LET c == CHOOSE x \in C : TRUE IN conns[c].nRead + SumRead(C \ {c})

TotalRead == SumRead(DOMAIN conns)

\* (mutant) the handler is cancelled by shutdown wherever it is
ObserveShutdown_AnyPoint(c) ==
    /\ Live(c) /\ ~Torn
    /\ doneClosed
    /\ HandlerExit(c, "Shutdown")
    /\ UNCHANGED << db, now, last, ref, srv, doneClosed >>
    /\ UNCHANGED extVars

\* select!: done.recv() completes
ObserveShutdown(c) ==
    /\ Live(c) /\ ~Torn
    /\ conns[c].pc = "select"
    /\ doneClosed
    /\ HandlerExit(c, "Shutdown")
    /\ UNCHANGED << db, now, last, ref, srv, doneClosed >>
    /\ UNCHANGED extVars

\* read_frame: bytes arrive that leave the buffer holding an incomplete frame
ReadPartial(c) ==
    /\ Live(c) /\ ~Torn
    /\ conns[c].pc = "select"
    /\ conns[c].buf = "empty"
    /\ TotalRead < MaxReqs
    /\ conns' = [conns EXCEPT ![c].buf = "partial"]
    /\ UNCHANGED << db, tasks, wg, now, last, ref, srv, doneClosed >>
    /\ UNCHANGED extVars

\* a create in flight needs a keyspace instance of the MaxInst the run has
PendingCreates ==
    Cardinality({c \in DOMAIN conns : conns[c].pc = "got" /\ conns[c].cur = F_create})

\* (mutant) the next frame is read while the response is still being written
ReadFrame_Pipelined(c, f) ==
    /\ Live(c) /\ ~Torn
    /\ conns[c].pc \in {"select", "writing"}
    /\ TotalRead < MaxReqs
    /\ f = F_create => Cardinality(DOMAIN db.heap) + PendingCreates < MaxInst
    /\ conns' = [conns EXCEPT ![c].pc = "got", ![c].buf = "empty", ![c].cur = f,
                              ![c].nRead = @ + 1]
    /\ UNCHANGED << db, tasks, wg, now, last, ref, srv, doneClosed >>
    /\ UNCHANGED extVars

\* read_frame returns Some(f): the buffer holds all of frame f
ReadFrame(c, f) ==
    /\ Live(c) /\ ~Torn
    /\ conns[c].pc = "select"
    /\ TotalRead < MaxReqs
    /\ f = F_create => Cardinality(DOMAIN db.heap) + PendingCreates < MaxInst
    /\ conns' = [conns EXCEPT ![c].pc = "got", ![c].buf = "empty", ![c].cur = f,
                              ![c].nRead = @ + 1]
    /\ UNCHANGED << db, tasks, wg, now, last, ref, srv, doneClosed >>
    /\ UNCHANGED extVars

\* read_frame returns None: a zero-byte read on an empty buffer
ReadEof(c) ==
    /\ Live(c) /\ ~Torn
    /\ conns[c].pc = "select"
    /\ conns[c].buf = "empty"
    /\ HandlerExit(c, "Eof")
    /\ UNCHANGED << db, now, last, ref, srv, doneClosed >>
    /\ UNCHANGED extVars

\* (mutant) an Error frame is written for the failed read before handle returns
ReadFail_RepliesFirst(c, err) ==
    /\ Live(c) /\ ~Torn
    /\ conns[c].pc = "select"
    /\ err = "Reset" => conns[c].buf = "partial"
    /\ conns' = [conns EXCEPT ![c] = [ConnNew EXCEPT !.pc = "exited", !.exit = err,
                                                    !.nRead = conns[c].nRead,
                                                    !.nWritten = conns[c].nWritten + 1,
                                                    !.answered = conns[c].answered]]
    /\ tasks' = [tasks EXCEPT ![<< "conn", c >>] = "exited"]
    /\ wg' = (wg \ {<< "conn", c >>})
               \ ArcDbDrop(srv \in {"new", "running"} \/ \E d \in Conns \ {c} : Live(d))
    /\ UNCHANGED << db, now, last, ref, srv, doneClosed >>
    /\ UNCHANGED extVars

\* read_frame returns Err: Reset (a zero-byte read on a buffer holding an
\* incomplete frame), Frame(InvalidFormat) (the buffer does not parse) or Io,
\* and `res?` returns it from handle; or frame::parse panics and the task
\* unwinds
ReadFail(c, err) ==
    /\ Live(c) /\ ~Torn
    /\ conns[c].pc = "select"
    /\ err = "Reset" => conns[c].buf = "partial"
    /\ HandlerExit(c, err)
    /\ UNCHANGED << db, now, last, ref, srv, doneClosed >>
    /\ UNCHANGED extVars

\* command::parse and Db::execute on the frame read; the frame to write is
\* the result, or the Error frame of write_error
Process(c) ==
    /\ Live(c) /\ ~Torn
    /\ conns[c].pc = "got"
    /\ \E p \in {CommandParse(conns[c].cur, now, 0)} :
          IF IsPanic(p)
            THEN /\ HandlerExit(c, "panic")
                 /\ UNCHANGED << db, last >>
          ELSE IF ~p.ok
            THEN /\ conns' = [conns EXCEPT ![c].pc = "writing", ![c].kind = "parse_error",
                                           ![c].resp = FError(p.err),
                                           ![c].respNo = conns[c].nRead]
                 /\ UNCHANGED << db, tasks, wg, last >>
          ELSE \E r \in {Execute(db, p.val, now)} :
                  /\ db' = r.db
                  /\ last' = NoOp
                  /\ tasks' = [x \in (DOMAIN tasks) \cup r.spawn |->
                                 IF x \in r.spawn THEN "running" ELSE tasks[x]]
                  /\ wg' = (wg \cup r.spawn \cup r.take) \ r.release
                  /\ conns' = [conns EXCEPT
                       ![c].pc = "writing",
                       ![c].kind = IF r.res.ok THEN "result" ELSE "exec_error",
                       ![c].resp = IF r.res.ok THEN r.res.val ELSE FError(r.res.err),
                       ![c].respNo = conns[c].nRead]
    /\ UNCHANGED << now, ref, srv, doneClosed >>
    /\ UNCHANGED extVars

\* write_frame: the first bytes of the frame go out
WriteStart(c) ==
    /\ Live(c) /\ ~Torn
    /\ conns[c].pc = "writing"
    /\ conns[c].wrote = "none"
    /\ conns' = [conns EXCEPT ![c].wrote = "partial"]
    /\ UNCHANGED << db, tasks, wg, now, last, ref, srv, doneClosed >>
    /\ UNCHANGED extVars

\* (mutant) handle returns once an Error frame has been written
WriteDone_ClosesAfterError(c) ==
    /\ Live(c) /\ ~Torn
    /\ conns[c].pc = "writing"
    /\ conns[c].wrote = "partial"
    /\ conns' = [conns EXCEPT ![c] = [ConnNew EXCEPT
                    !.pc = IF conns[c].kind = "result" THEN "select" ELSE "exited",
                    !.exit = IF conns[c].kind = "result" THEN "none" ELSE "Eof",
                    !.kind = conns[c].kind,
                    !.nRead = conns[c].nRead,
                    !.nWritten = conns[c].nWritten + 1,
                    !.answered = conns[c].respNo]]
    /\ UNCHANGED << db, tasks, wg, now, last, ref, srv, doneClosed >>
    /\ UNCHANGED extVars

\* write_frame: the rest goes out and the stream is flushed; handle loops
WriteDone(c) ==
    /\ Live(c) /\ ~Torn
    /\ conns[c].pc = "writing"
    /\ conns[c].wrote = "partial"
    /\ conns' = [conns EXCEPT ![c] = [ConnNew EXCEPT !.kind = conns[c].kind,
                                                    !.nRead = conns[c].nRead,
                                                    !.nWritten = conns[c].nWritten + 1,
                                                    !.answered = conns[c].respNo]]
    /\ UNCHANGED << db, tasks, wg, now, last, ref, srv, doneClosed >>
    /\ UNCHANGED extVars

\* write_frame returns Err(Io): `?` returns it from handle
WriteFail(c) ==
    /\ Live(c) /\ ~Torn
    /\ conns[c].pc = "writing"
    /\ HandlerExit(c, "Io")
    /\ UNCHANGED << db, now, last, ref, srv, doneClosed >>
    /\ UNCHANGED extVars

\* (mutant) the task ends on shutdown but its WaitGroup clone is leaked
TaskObserveShutdown_KeepsToken(x) ==
    /\ ~Torn
    /\ x \in DOMAIN tasks /\ x[1] \in {"exp", "mem", "mon"}
    /\ tasks[x] = "running"
    /\ doneClosed
    /\ tasks' = [tasks EXCEPT ![x] = "exited"]
    /\ UNCHANGED << db, wg, now, last, ref, srv, doneClosed, conns >>
    /\ UNCHANGED extVars

\* an evictor or monitor task x sees done.recv() complete in its select!
\* and ends, dropping its WaitGroup clone.  (A sleep that elapses as done
\* closes can still win the select!, so the tick actions stay enabled.)
TaskObserveShutdown(x) ==
    /\ ~Torn
    /\ x \in DOMAIN tasks /\ x[1] \in {"exp", "mem", "mon"}
    /\ tasks[x] = "running"
    /\ doneClosed
    /\ tasks' = [tasks EXCEPT ![x] = "exited"]
    /\ wg' = wg \ {x}
    /\ UNCHANGED << db, now, last, ref, srv, doneClosed, conns >>
    /\ UNCHANGED extVars

\* one tick of the expiring evictor of instance i in the server
SrvExpiringEvictorTick(i) == ~Torn /\ ExpiringEvictorTick(i)

\* MaxMemoryEvictorTick below with the WaitGroup clone leaked when the probe
\* fails: the loop ends, its token stays
MaxMemoryEvictorTick_KeepsToken(i, probe) ==
    /\ ~Torn
    /\ << "mem", i >> \in DOMAIN tasks
    /\ tasks[<< "mem", i >>] = "running"
    /\ CASE probe = "error" ->
              /\ tasks' = [tasks EXCEPT ![<< "mem", i >>] = "exited"]
              /\ UNCHANGED << db, wg >>
         [] probe = "below" -> UNCHANGED << db, tasks, wg >>
         [] probe = "above" ->
              /\ \E S \in Samples(db.heap[i].store, MAX_MEMORY_EVICTOR_SAMPLE_SIZE) :
                   \E ks \in (IF db.heap[i].evictor = "Lru"
                                THEN KsEvictLru(db.heap[i], S, now)
                                ELSE KsEvictRandom(db.heap[i], S)) :
                      db' = [db EXCEPT !.heap[i] = ks]
              /\ UNCHANGED << tasks, wg >>
    /\ last' = NoOp
    /\ UNCHANGED << now, ref, srv, doneClosed, conns >>
    /\ UNCHANGED extVars

\* one tick of the max-memory evictor of instance i (the 1000 ms sleep won
\* the select!); probe is what pidrusage gave: an error, or a resident size
\* below / not below server_max_memory
MaxMemoryEvictorTick(i, probe) ==
    /\ ~Torn
    /\ << "mem", i >> \in DOMAIN tasks
    /\ tasks[<< "mem", i >>] = "running"
    /\ CASE probe = "error" ->
              /\ tasks' = [tasks EXCEPT ![<< "mem", i >>] = "exited"]
              /\ wg' = wg \ {<< "mem", i >>}
              /\ UNCHANGED db
         [] probe = "below" -> UNCHANGED << db, tasks, wg >>
         [] probe = "above" ->
              /\ \E S \in Samples(db.heap[i].store, MAX_MEMORY_EVICTOR_SAMPLE_SIZE) :
                   \E ks \in (IF db.heap[i].evictor = "Lru"
                                THEN KsEvictLru(db.heap[i], S, now)
                                ELSE KsEvictRandom(db.heap[i], S)) :
                      db' = [db EXCEPT !.heap[i] = ks]
              /\ UNCHANGED << tasks, wg >>
    /\ last' = NoOp
    /\ UNCHANGED << now, ref, srv, doneClosed, conns >>
    /\ UNCHANGED extVars

\* the system monitor finds no process with its pid and ends
MonitorFail ==
    /\ ~Torn
    /\ << "mon" >> \in DOMAIN tasks
    /\ tasks[<< "mon" >>] = "running"
    /\ tasks' = [tasks EXCEPT ![<< "mon" >>] = "exited"]
    /\ wg' = wg \ {<< "mon" >>}
    /\ UNCHANGED << db, now, last, ref, srv, doneClosed, conns >>
    /\ UNCHANGED extVars

Insts == 1..MaxInst
TaskIds == {<< "mon" >>} \cup {<< k, i >> : k \in {"exp", "mem"}, i \in Insts}

ReadErrors == {"Reset", "InvalidFormat", "Io", "panic"}

NextSrv ==
    \/ StartServer
    \/ \E c \in Conns : Accept(c)
    \/ AcceptFail
    \/ CtrlC
    \/ WaitReturns
    \/ \E c \in Conns : ObserveShutdown(c)
    \/ \E c \in Conns : ReadPartial(c)
    \/ \E c \in Conns, f \in ReqFrames : ReadFrame(c, f)
    \/ \E c \in Conns : ReadEof(c)
    \/ \E c \in Conns, err \in ReadErrors : ReadFail(c, err)
    \/ \E c \in Conns : Process(c)
    \/ \E c \in Conns : WriteStart(c)
    \/ \E c \in Conns : WriteDone(c)
    \/ \E c \in Conns : WriteFail(c)
    \/ \E x \in TaskIds : TaskObserveShutdown(x)
    \/ \E i \in Insts : SrvExpiringEvictorTick(i)
    \/ \E i \in Insts, probe \in {"error", "below", "above"} : MaxMemoryEvictorTick(i, probe)
    \/ MonitorFail

SpecSrv == InitSrv /\ [][NextSrv]_vars

\* The scheduling the liveness claims rest on.  The runtime polls every
\* spawned task that can make progress (weak fairness of the steps of
\* handlers and background tasks, the peer taking the bytes written);
\* select! polls its branches in random order, so a handler that is offered
\* shutdown again and again takes it (strong fairness).  Nothing obliges a
\* client to send, the listener to accept, or anyone to press ctrl-c.
FairSrv ==
    /\ SpecSrv
    /\ \A c \in Conns : /\ WF_vars(Process(c))
                        /\ WF_vars(WriteStart(c))
                        /\ WF_vars(WriteDone(c))
                        /\ SF_vars(ObserveShutdown(c))
    /\ \A x \in TaskIds : WF_vars(TaskObserveShutdown(x))
    /\ WF_vars(WaitReturns)

----------------------------------------------------------------------------
(* Claims about the server *)

AllTasksExited == \A x \in DOMAIN tasks : tasks[x] = "exited"

\* instance i was created and has been removed from the registry
Dropped(i) ==
    /\ i \in DOMAIN db.heap
    /\ \A n \in DOMAIN db.keyspaces : db.keyspaces[n] # i

EvictorsOf(i) == {x \in DOMAIN tasks : x \in {<< "exp", i >>, << "mem", i >>}}

\* C4: after a successful Drop of a keyspace, that keyspace's expiring
\* evictor and max-memory evictor eventually terminate, whether or not the
\* server is ever shut down (so: they terminate, or the server stops).
C4_DropTerminatesEvictors ==
    \A i \in Insts :
        (Dropped(i) /\ srv = "running")
            ~> (srv # "running" \/ \A x \in EvictorsOf(i) : tasks[x] = "exited")

\* C5: start returns only when every task ever spawned has exited and the
\* wait group holds no token.
C5_ReturnsAfterAllTasks ==
    srv \in {"returned_ok", "returned_err"} => AllTasksExited /\ wg = {}

C7_ShutdownBetweenRequests ==
    [][\A c \in Conns :
          (Live(c) /\ Exited(c)' /\ conns'[c].exit = "Shutdown")
             => /\ doneClosed
                /\ conns[c].pc = "select"
                /\ conns[c].wrote = "none"
                /\ conns[c].nWritten = conns[c].nRead]_vars

\* a handler that served a request has left on shutdown
C7_Witness ==
    \E c \in DOMAIN conns :
        /\ conns[c].pc = "exited" /\ conns[c].exit = "Shutdown"
        /\ conns[c].nRead >= 1 /\ conns[c].nWritten = conns[c].nRead

\* the max-memory evictor of instance i has left its loop
MaxMemoryEvictorEnded(i) ==
    << "mem", i >> \in DOMAIN tasks /\ tasks[<< "mem", i >>] = "exited"

C8_InOrder ==
    \A c \in DOMAIN conns :
        /\ conns[c].nWritten > 0 => conns[c].answered = conns[c].nWritten
        /\ conns[c].nWritten <= conns[c].nRead
        /\ conns[c].nRead <= conns[c].nWritten + 1
        /\ conns[c].pc = "select" => conns[c].nRead = conns[c].nWritten
        /\ conns[c].pc \in {"got", "writing"} => conns[c].nRead = conns[c].nWritten + 1
        /\ conns[c].pc = "writing" => conns[c].respNo = conns[c].nRead

\* one connection has had its second request answered
C8_Witness ==
    \E c \in DOMAIN conns : conns[c].nWritten = 2 /\ conns[c].answered = 2

\* the frame the handler owes for request frame f, with the Db as it is
ResponseTo(f, d, t) ==
    LET p == CommandParse(f, t, 0)
    IN IF ~p.ok THEN FError(p.err)
       ELSE LET r == Execute(d, p.val, t)
            IN IF r.res.ok THEN r.res.val ELSE FError(r.res.err)

\* C9: for every request frame read exactly one frame is written back, the
\* Error frame of the parse or execution failure or else the result; after
\* an Error frame the handler is back waiting for the next frame.
C9_OneResponsePerRequest ==
    [][\A c \in Conns : Live(c) =>
          /\ (conns[c].pc = "got" /\ conns'[c] # conns[c])
                => /\ conns'[c].pc = "writing"
                   /\ conns'[c].resp = ResponseTo(conns[c].cur, db, now)
                   /\ (conns'[c].kind = "result") = (FType(conns'[c].resp) # "Error")
                   /\ conns'[c].nWritten = conns[c].nWritten
          /\ (conns'[c].nWritten # conns[c].nWritten)
                => /\ conns[c].pc = "writing"
                   /\ conns'[c].nWritten = conns[c].nWritten + 1
                   /\ conns'[c].pc = "select"
          /\ (conns[c].pc = "writing" /\ conns'[c].pc # "writing")
                => \/ conns'[c].nWritten = conns[c].nWritten + 1
                   \/ conns'[c].exit = "Io"]_vars

\* a handler has answered a request with an Error frame and read the next
C9_Witness ==
    \E c \in DOMAIN conns :
        /\ conns[c].pc = "got" /\ conns[c].nRead = 2 /\ conns[c].nWritten = 1
        /\ conns[c].kind \in {"parse_error", "exec_error"}

\* C10: when read_frame fails with InvalidFormat the handler ends without
\* executing a command and without writing a frame.
C10_InvalidFormatCloses ==
    [][\A c \in Conns :
          (Live(c) /\ Exited(c)' /\ conns'[c].exit = "InvalidFormat")
             => /\ conns[c].pc = "select"
                /\ db' = db
                /\ conns'[c].nWritten = conns[c].nWritten
                /\ conns'[c].nRead = conns[c].nRead
                /\ \A d \in DOMAIN conns : d # c => conns'[d] = conns[d]]_vars

\* a handler that had served a request has ended on malformed input
C10_Witness ==
    \E c \in DOMAIN conns :
        /\ conns[c].pc = "exited" /\ conns[c].exit = "InvalidFormat"
        /\ conns[c].nRead = 1 /\ conns[c].nWritten = 1

----------------------------------------------------------------------------
(* The registry specification: a fresh Db with max_memory = 0 and the
   commands of Db::execute on two keyspace names, one of them not UTF-8 *)

\* the keyspace instances the registry specification creates at most
MaxDbInst == 2

\* a keyspace name that is not UTF-8: one byte 0xFF
B_bin == << 255 >>

\* the names a client uses: Create::parse, Drop::parse and the key commands
\* take the name as the bytes of a String frame, without any check
DbNames == {B_a, B_bin}

\* the commands naming a keyspace and a key or counting its keys
KeyCommandsOn(name) ==
    {CmdSet(name, B_k1, B_v1, None, FALSE, FALSE), CmdGet(name, B_k1),
     CmdDel(name, B_k1), CmdCount(name), CmdTtl(name, B_k1)}

\* the sets of key k1 on a keyspace: plain and conditional, without TTL and
\* with an expire_at that has been reached
SetsOn(name) ==
    {CmdSet(name, B_k1, B_v2, e, f[1], f[2]) :
        e \in {None, Some(0)},
        f \in {<< FALSE, FALSE >>, << TRUE, FALSE >>, << FALSE, TRUE >>}}

DbCommands ==
    UNION {KeyCommandsOn(n) \cup SetsOn(n) : n \in DbNames}
    \cup {CmdCreate(n, "Nop", ine) : n \in DbNames, ine \in BOOLEAN}
    \cup {CmdDrop(n, ie) : n \in DbNames, ie \in BOOLEAN}

InitDb ==
    /\ db = DbNew(0)
    /\ tasks = << >>
    /\ wg = {<< "db" >>}
    /\ now = 0
    /\ last = [cmd |-> CmdPing, res |-> Ok(FString(B_PONG))]
    /\ ref = None
    /\ srv = "running"
    /\ doneClosed = FALSE
    /\ conns = << >>
    /\ ExtIdle

\* Db::execute(cmd), run to completion; last records the command and the
\* Result it returned
DbOp(cmd) ==
    /\ (cmd.c = "Create" /\ ~HmContains(db.keyspaces, cmd.keyspace))
          => Cardinality(DOMAIN db.heap) < MaxDbInst
    /\ \E r \in {Execute(db, cmd, now)} :
          /\ db' = r.db
          /\ last' = [cmd |-> cmd, res |-> r.res]
          /\ tasks' = [x \in (DOMAIN tasks) \cup r.spawn |->
                         IF x \in r.spawn THEN "running" ELSE tasks[x]]
          /\ wg' = (wg \cup r.spawn \cup r.take) \ r.release
    /\ UNCHANGED << now, ref, srvVars >>

NextDb ==
    \/ \E cmd \in DbCommands : DbOp(cmd)
    \/ \E i \in 1..MaxDbInst : ExpiringEvictorTick(i)

SpecDb == InitDb /\ [][NextDb]_vars

----------------------------------------------------------------------------
(* Claims about the registry, under SpecDb *)

\* the step is Db::execute of a command of the given kinds
DbStepOf(kinds) == "cmd" \in DOMAIN last' /\ last'.cmd.c \in kinds

\* the Result is Ok(Boolean(b))
IsOkBoolean(res, b) ==
    res.ok /\ FType(res.val) = "Boolean" /\ FVal(res.val) = b

\* the Result is Err of the given ExecuteCommandError variant
IsErr(res, e) == ~res.ok /\ res.err.e = e

KeyCommandKinds == {"Set", "Get", "Del", "Count", "Ttl"}

\* C11: Create on a name already in the registry returns Boolean(false)
\* with if_not_exists and the KeyspaceExists error without it, and leaves
\* the registry and every keyspace as they were; Create on an absent name
\* returns Boolean(true) and adds an empty keyspace under that name, the
\* other names keeping their keyspaces.
C11_Create ==
    [][DbStepOf({"Create"}) =>
        LET cmd == last'.cmd
            res == last'.res
        IN IF HmContains(db.keyspaces, cmd.keyspace)
             THEN /\ db' = db
                  /\ IF cmd.if_not_exists
                       THEN IsOkBoolean(res, FALSE)
                       ELSE IsErr(res, "KeyspaceExists")
             ELSE /\ IsOkBoolean(res, TRUE)
                  /\ DOMAIN db'.keyspaces = DOMAIN db.keyspaces \cup {cmd.keyspace}
                  /\ db'.heap[db'.keyspaces[cmd.keyspace]].store = EmptyMap
                  /\ \A n \in DOMAIN db.keyspaces :
                        db'.heap[db'.keyspaces[n]] = db.heap[db.keyspaces[n]]
    ]_vars

\* C12: Drop on a name not in the registry returns Boolean(false) with
\* if_exists and the KeyspaceDoesNotExist error without it, and leaves the
\* registry as it was; Drop on a name in the registry returns
\* Boolean(true) and removes that name and no other, and from then on every
\* key command naming it fails with KeyspaceDoesNotExist.
C12_Drop ==
    [][DbStepOf({"Drop"}) =>
        LET cmd == last'.cmd
            res == last'.res
        IN IF ~HmContains(db.keyspaces, cmd.keyspace)
             THEN /\ db' = db
                  /\ IF cmd.if_exists
                       THEN IsOkBoolean(res, FALSE)
                       ELSE IsErr(res, "KeyspaceDoesNotExist")
             ELSE /\ IsOkBoolean(res, TRUE)
                  /\ DOMAIN db'.keyspaces = DOMAIN db.keyspaces \ {cmd.keyspace}
                  /\ \A n \in DOMAIN db'.keyspaces :
                        db'.heap[db'.keyspaces[n]] = db.heap[db.keyspaces[n]]
                  /\ \A k \in KeyCommandsOn(cmd.keyspace) :
                        IsErr(Execute(db', k, now).res, "KeyspaceDoesNotExist")
    ]_vars

\* C13: Set, Get, Del, Count and Ttl on a keyspace name that is not in the
\* registry, whatever bytes the name is, return the KeyspaceDoesNotExist
\* error and leave the registry and every keyspace as they were.
C13_AbsentKeyspace ==
    [][(DbStepOf(KeyCommandKinds) /\ ~HmContains(db.keyspaces, last'.cmd.keyspace))
          => (IsErr(last'.res, "KeyspaceDoesNotExist") /\ db' = db)
    ]_vars

----------------------------------------------------------------------------
(* Claims about the key commands of a keyspace in the registry, under
   SpecDb *)

\* the keyspace instance a name of the registry stands for
KsOf(d, name) == d.heap[d.keyspaces[name]]

\* the step is a conditional Set on a keyspace of the registry
ConditionalSetStep ==
    /\ DbStepOf({"Set"})
    /\ last'.cmd.if_exists \/ last'.cmd.if_not_exists
    /\ HmContains(db.keyspaces, last'.cmd.keyspace)

\* C25: run one after another, set_if_not_exists writes the value and
\* returns Boolean(true) when the key is absent from store and returns
\* Boolean(false) leaving the stored value and its TTL as they were when it
\* is present; set_if_exists overwrites and returns Boolean(true) when the
\* key is present and returns Boolean(false) leaving store without the key
\* when it is absent.
C25_ConditionalSets ==
    [][ConditionalSetStep =>
        LET cmd == last'.cmd
            ks == KsOf(db, cmd.keyspace)
            ksN == KsOf(db', cmd.keyspace)
            present == HmContains(ks.store, cmd.key)
            written ==
                /\ IsOkBoolean(last'.res, TRUE)
                /\ HmContains(ksN.store, cmd.key)
                /\ ksN.store[cmd.key].data = cmd.value
                /\ ksN.store[cmd.key].expire_at = cmd.expire_at
            refused ==
                /\ IsOkBoolean(last'.res, FALSE)
                /\ ksN.store = ks.store
         IN IF cmd.if_not_exists
              THEN IF present THEN refused ELSE written
              ELSE IF present THEN written
                   ELSE refused /\ ~HmContains(ksN.store, cmd.key)
    ]_vars

\* set_if_not_exists was refused on a key stored with a TTL
C25_Witness ==
    /\ "cmd" \in DOMAIN last
    /\ last.cmd.c = "Set"
    /\ last.cmd.if_not_exists
    /\ IsOkBoolean(last.res, FALSE)
    /\ HmContains(db.keyspaces, last.cmd.keyspace)
    /\ HmContains(KsOf(db, last.cmd.keyspace).store, last.cmd.key)
    /\ IsSome(KsOf(db, last.cmd.keyspace).store[last.cmd.key].expire_at)
    /\ last.cmd.expire_at = None


\* the names of the registry other than the given one
OtherNames(d, name) == DOMAIN d.keyspaces \ {name}

\* name stands for the same keyspace before and after the step, with the
\* same store and the same expiring map
KeyspaceUntouched(name) ==
    /\ HmContains(db'.keyspaces, name)
    /\ db'.keyspaces[name] = db.keyspaces[name]
    /\ KsOf(db', name).store = KsOf(db, name).store
    /\ KsOf(db', name).expiring = KsOf(db, name).expiring

\* C26: a Set, Get, Del, Ttl or Count on keyspace A, a Drop of A and a tick
\* of the expiring evictor of A leave the store and the expiring map of
\* every other keyspace B of the registry as they were.
C26_KeyspacesIndependent ==
    [][/\ DbStepOf(KeyCommandKinds \cup {"Drop"})
            => \A B \in OtherNames(db, last'.cmd.keyspace) : KeyspaceUntouched(B)
       /\ \A A \in DOMAIN db.keyspaces :
            ExpiringEvictorTick(db.keyspaces[A])
               => \A B \in OtherNames(db, A) : KeyspaceUntouched(B)
    ]_vars

\* a Set has just written k1 in one keyspace while another keyspace holds
\* k1 with another value
C26_Witness ==
    /\ "cmd" \in DOMAIN last
    /\ last.cmd.c = "Set"
    /\ IsOkBoolean(last.res, TRUE)
    /\ HmContains(db.keyspaces, last.cmd.keyspace)
    /\ KsOf(db, last.cmd.keyspace).store[last.cmd.key].data = last.cmd.value
    /\ \E B \in OtherNames(db, last.cmd.keyspace) :
          /\ HmContains(KsOf(db, B).store, last.cmd.key)
          /\ KsOf(db, B).store[last.cmd.key].data # last.cmd.value
          /\ HmContains(KsOf(db, B).expiring, last.cmd.key)

----------------------------------------------------------------------------
(* The lock-level specification: keyspace "a", two handler threads that
   call its methods and the task of its expiring evictor, each step of a call
   being what the thread does between two lock operations *)

lockVars == << thr, locks >>
codecVars == << cframe, wire, pres >>
readVars == << rbuf, rin, rres >>

\* the calls of Keyspace::set each thread makes at most
MaxSets == 1

\* the handler threads
Threads == {1, 2}

\* the task start_expiring_evictor spawns, as a thread beside the handlers
Evictor == 0

\* a thread outside any Keyspace call that has made n calls; op is the
\* method of its latest call and ret the Boolean that call returned; lastw
\* is, per key, the arguments << value, expire_at >> of the latest set of
\* that key in which the thread got to handle.insert
ThreadNew ==
    [pc |-> "idle", op |-> "none", key |-> << >>, value |-> << >>,
     expire_at |-> None, ret |-> None, n |-> 0, lastw |-> EmptyMap]

InitLocks ==
    LET r == ExecCreate(DbNew(0), CmdCreate(B_a, "Nop", FALSE))
    IN /\ db = r.db
       /\ tasks = [x \in r.spawn |-> "running"]
       /\ wg = {<< "db" >>} \cup r.take \cup r.spawn
       /\ now = 0
       /\ last = NoOp
       /\ ref = None
       /\ srv = "running"
       /\ doneClosed = FALSE
       /\ conns = << >>
       /\ thr = [t \in Threads \cup {Evictor} |-> ThreadNew]
       /\ locks = [store |-> None, expiring |-> None]
       /\ cframe = << >> /\ wire = << >> /\ pres = << >>
       /\ rbuf = << >> /\ rin = << >> /\ rres = << >>

\* thread t enters Keyspace::set(key, value, expire_at)
SetCall(t, key, value, expire_at) ==
    /\ thr[t].pc = "idle"
    /\ thr[t].n < MaxSets
    /\ thr' = [thr EXCEPT ![t].pc = "set_store", ![t].op = "set",
                          ![t].key = key, ![t].value = value,
                          ![t].expire_at = expire_at, ![t].ret = None,
                          ![t].n = @ + 1]
    /\ UNCHANGED << db, locks >>
    /\ UNCHANGED << tasks, wg, now, last, ref, srv, doneClosed, conns >>
    /\ UNCHANGED << codecVars, readVars >>

\* the step SetStore below had data and expire_at been written apart: the
\* entry keeps the expire_at it had
SetStore_KeepsExpireAt(t) ==
    /\ thr[t].pc = "set_store"
    /\ locks.store = None
    /\ locks' = [locks EXCEPT !.store = Some(t)]
    /\ db' = [db EXCEPT !.heap[1].store =
                HmInsert(@, thr[t].key,
                         ValueNew(thr[t].value,
                                  IF HmContains(@, thr[t].key)
                                    THEN @[thr[t].key].expire_at
                                    ELSE thr[t].expire_at, now))]
    /\ thr' = [thr EXCEPT ![t].pc = IF IsSome(thr[t].expire_at)
                                      THEN "set_expiring" ELSE "set_return",
                          ![t].lastw = HmInsert(@, thr[t].key,
                                         << thr[t].value, thr[t].expire_at >>)]
    /\ UNCHANGED << tasks, wg, now, last, ref, srv, doneClosed, conns >>
    /\ UNCHANGED << codecVars, readVars >>

\* self.store.lock() is granted; Value::new and handle.insert under it
SetStore(t) ==
    /\ thr[t].pc = "set_store"
    /\ locks.store = None
    /\ locks' = [locks EXCEPT !.store = Some(t)]
    /\ db' = [db EXCEPT !.heap[1].store =
                HmInsert(@, thr[t].key,
                         ValueNew(thr[t].value, thr[t].expire_at, now))]
    /\ thr' = [thr EXCEPT ![t].pc = IF IsSome(thr[t].expire_at)
                                      THEN "set_expiring" ELSE "set_return",
                          ![t].lastw = HmInsert(@, thr[t].key,
                                         << thr[t].value, thr[t].expire_at >>)]
    /\ UNCHANGED << tasks, wg, now, last, ref, srv, doneClosed, conns >>
    /\ UNCHANGED << codecVars, readVars >>

\* the step SetExpiring below with the insert into expiring lost
SetExpiring_NoInsert(t) ==
    /\ thr[t].pc = "set_expiring"
    /\ locks.expiring = None
    /\ locks' = [locks EXCEPT !.expiring = Some(t)]
    /\ thr' = [thr EXCEPT ![t].pc = "set_return"]
    /\ UNCHANGED << db, tasks, wg, now, last, ref, srv, doneClosed, conns >>
    /\ UNCHANGED << codecVars, readVars >>

\* self.expiring.lock() is granted while the store guard is held;
\* expring_handle.insert under it
SetExpiring(t) ==
    /\ thr[t].pc = "set_expiring"
    /\ locks.expiring = None
    /\ locks' = [locks EXCEPT !.expiring = Some(t)]
    /\ db' = [db EXCEPT !.heap[1].expiring =
                HmInsert(@, thr[t].key, Unwrap(thr[t].expire_at))]
    /\ thr' = [thr EXCEPT ![t].pc = "set_return"]
    /\ UNCHANGED << tasks, wg, now, last, ref, srv, doneClosed, conns >>
    /\ UNCHANGED << codecVars, readVars >>

\* set returns Ok(Boolean(true)): its guards are dropped
SetReturn(t) ==
    /\ thr[t].pc = "set_return"
    /\ locks' = [store |-> None,
                 expiring |-> IF locks.expiring = Some(t) THEN None
                                                          ELSE locks.expiring]
    /\ thr' = [thr EXCEPT ![t].pc = "idle", ![t].ret = Some(TRUE)]
    /\ UNCHANGED << db, tasks, wg, now, last, ref, srv, doneClosed, conns >>
    /\ UNCHANGED << codecVars, readVars >>

\* the expire_at arguments of the concurrent sets
LockExpireAts == {None, Some(1)}

NextLocks ==
    \E t \in Threads :
        \/ \E k \in Keys, v \in Vals, e \in LockExpireAts : SetCall(t, k, v, e)
        \/ SetStore(t)
        \/ SetExpiring(t)
        \/ SetReturn(t)

SpecLocks == InitLocks /\ [][NextLocks]_vars

----------------------------------------------------------------------------
(* Claims about concurrent calls, under SpecLocks *)

\* the threads of which a set of key k has inserted its Value
Wrote(k) == {t \in Threads : HmContains(thr[t].lastw, k)}

\* the entry of key k is the Value of thread t's latest set of k: its data
\* with its expire_at
HoldsWriteOf(k, t) ==
    /\ db.heap[1].store[k].data = thr[t].lastw[k][1]
    /\ db.heap[1].store[k].expire_at = thr[t].lastw[k][2]

\* C14: concurrent sets lose no update and mix no two writes: a key that
\* some set has written is in the store, and it holds the value of one of
\* the threads' latest sets of that key together with the expire_at of that
\* same set; hence a key written by one thread only holds that thread's
\* latest write whatever the other threads do to other keys.
C14_ConcurrentSets ==
    \A k \in Keys :
        /\ Wrote(k) # {} <=> HmContains(db.heap[1].store, k)
        /\ Wrote(k) # {} => \E t \in Wrote(k) : HoldsWriteOf(k, t)

\* both threads have set the same key, with different values and different
\* expire_at, in calls that were under way together or one after the other,
\* and both calls have returned
C14_Witness ==
    /\ \A t \in Threads : thr[t].pc = "idle" /\ thr[t].n = 1
    /\ thr[1].lastw # thr[2].lastw
    /\ DOMAIN thr[1].lastw = DOMAIN thr[2].lastw
    /\ \E k \in Keys : /\ HmContains(thr[1].lastw, k)
                       /\ thr[1].lastw[k][1] # thr[2].lastw[k][1]
                       /\ thr[1].lastw[k][2] # thr[2].lastw[k][2]

----------------------------------------------------------------------------
(* The lock-level specification of every writing method: the handler
   threads call set, set_if_not_exists, set_if_exists and del on keyspace
   "a" while its expiring evictor ticks *)

\* thread t enters Keyspace::set_if_not_exists(key, value, expire_at)
SetIfNotExistsCall(t, key, value, expire_at) ==
    /\ thr[t].pc = "idle"
    /\ thr[t].n < MaxSets
    /\ thr' = [thr EXCEPT ![t].pc = "sine_check", ![t].op = "set_if_not_exists",
                          ![t].key = key, ![t].value = value,
                          ![t].expire_at = expire_at, ![t].ret = None,
                          ![t].n = @ + 1]
    /\ UNCHANGED << db, locks >>
    /\ UNCHANGED << tasks, wg, now, last, ref, srv, doneClosed, conns >>
    /\ UNCHANGED << codecVars, readVars >>

\* self.store.lock() is granted and handle.get(&key) looked at: with an
\* entry the call returns Ok(Boolean(false)); without one the guard is
\* dropped and the call goes on to self.set
SetIfNotExistsCheck(t) ==
    /\ thr[t].pc = "sine_check"
    /\ locks.store = None
    /\ thr' = IF HmContains(db.heap[1].store, thr[t].key)
                THEN [thr EXCEPT ![t].pc = "idle", ![t].ret = Some(FALSE)]
                ELSE [thr EXCEPT ![t].pc = "set_store"]
    /\ UNCHANGED << db, locks >>
    /\ UNCHANGED << tasks, wg, now, last, ref, srv, doneClosed, conns >>
    /\ UNCHANGED << codecVars, readVars >>

\* thread t enters Keyspace::set_if_exists(key, value, expire_at)
SetIfExistsCall(t, key, value, expire_at) ==
    /\ thr[t].pc = "idle"
    /\ thr[t].n < MaxSets
    /\ thr' = [thr EXCEPT ![t].pc = "sie_check", ![t].op = "set_if_exists",
                          ![t].key = key, ![t].value = value,
                          ![t].expire_at = expire_at, ![t].ret = None,
                          ![t].n = @ + 1]
    /\ UNCHANGED << db, locks >>
    /\ UNCHANGED << tasks, wg, now, last, ref, srv, doneClosed, conns >>
    /\ UNCHANGED << codecVars, readVars >>

\* self.store.lock() is granted and handle.get(&key) looked at: without an
\* entry the call returns Ok(Boolean(false)); with one the guard is dropped
\* and the call goes on to self.set
SetIfExistsCheck(t) ==
    /\ thr[t].pc = "sie_check"
    /\ locks.store = None
    /\ thr' = IF ~HmContains(db.heap[1].store, thr[t].key)
                THEN [thr EXCEPT ![t].pc = "idle", ![t].ret = Some(FALSE)]
                ELSE [thr EXCEPT ![t].pc = "set_store"]
    /\ UNCHANGED << db, locks >>
    /\ UNCHANGED << tasks, wg, now, last, ref, srv, doneClosed, conns >>
    /\ UNCHANGED << codecVars, readVars >>

\* thread t enters Keyspace::del(key)
DelCall(t, key) ==
    /\ thr[t].pc = "idle"
    /\ thr[t].n < MaxSets
    /\ thr' = [thr EXCEPT ![t].pc = "del_store", ![t].op = "del",
                          ![t].key = key, ![t].value = << >>,
                          ![t].expire_at = None, ![t].ret = None,
                          ![t].n = @ + 1]
    /\ UNCHANGED << db, locks >>
    /\ UNCHANGED << tasks, wg, now, last, ref, srv, doneClosed, conns >>
    /\ UNCHANGED << codecVars, readVars >>

\* self.store.lock() is granted; handle.remove under it, and del returns
\* Ok(Boolean(result.is_some())), dropping the guard
DelStore(t) ==
    /\ thr[t].pc = "del_store"
    /\ locks.store = None
    /\ \E r \in {KsDel(db.heap[1], thr[t].key)} :
          /\ db' = [db EXCEPT !.heap[1] = r.ks]
          /\ thr' = [thr EXCEPT ![t].pc = "idle",
                                ![t].ret = Some(IsOkBoolean(r.res, TRUE))]
    /\ UNCHANGED locks
    /\ UNCHANGED << tasks, wg, now, last, ref, srv, doneClosed, conns >>
    /\ UNCHANGED << codecVars, readVars >>

\* thread t calls Keyspace::get(key): self.store.lock() is granted, the
\* entry is touched, or removed if its expire_at is past, and the guard is
\* dropped at the return
GetStore(t, key) ==
    /\ thr[t].pc = "idle"
    /\ thr[t].n < MaxSets
    /\ locks.store = None
    /\ db' = [db EXCEPT !.heap[1] = KsGet(db.heap[1], key, now).ks]
    /\ thr' = [thr EXCEPT ![t].op = "get", ![t].key = key,
                          ![t].value = << >>, ![t].expire_at = None,
                          ![t].ret = None, ![t].n = @ + 1]
    /\ UNCHANGED locks
    /\ UNCHANGED << tasks, wg, now, last, ref, srv, doneClosed, conns >>
    /\ UNCHANGED << codecVars, readVars >>

\* thread t calls Keyspace::ttl(key): self.store.lock() is granted, the
\* entry is touched, or removed if its expire_at is reached, and the guard
\* is dropped at the return
TtlStore(t, key) ==
    /\ thr[t].pc = "idle"
    /\ thr[t].n < MaxSets
    /\ locks.store = None
    /\ db' = [db EXCEPT !.heap[1] = KsTtl(db.heap[1], key, now).ks]
    /\ thr' = [thr EXCEPT ![t].op = "ttl", ![t].key = key,
                          ![t].value = << >>, ![t].expire_at = None,
                          ![t].ret = None, ![t].n = @ + 1]
    /\ UNCHANGED locks
    /\ UNCHANGED << tasks, wg, now, last, ref, srv, doneClosed, conns >>
    /\ UNCHANGED << codecVars, readVars >>

\* the evictor's 500 ms sleep is over and expiring.lock() is granted
SweepExpiring ==
    /\ tasks[<< "exp", 1 >>] = "running"
    /\ thr[Evictor].pc = "idle"
    /\ locks.expiring = None
    /\ locks' = [locks EXCEPT !.expiring = Some(Evictor)]
    /\ thr' = [thr EXCEPT ![Evictor].pc = "sweep_store"]
    /\ UNCHANGED << db, tasks, wg, now, last, ref, srv, doneClosed, conns >>
    /\ UNCHANGED << codecVars, readVars >>

\* store.lock() is granted while the expiring guard is held; the sample is
\* swept under both
SweepStore ==
    /\ thr[Evictor].pc = "sweep_store"
    /\ locks.store = None
    /\ locks' = [locks EXCEPT !.store = Some(Evictor)]
    /\ \E S \in Samples(db.heap[1].expiring, EXPIRING_EVICTOR_SAMPLE_SIZE) :
          db' = [db EXCEPT !.heap[1] = KsSweep(db.heap[1], S, now)]
    /\ thr' = [thr EXCEPT ![Evictor].pc = "sweep_return"]
    /\ UNCHANGED << tasks, wg, now, last, ref, srv, doneClosed, conns >>
    /\ UNCHANGED << codecVars, readVars >>

\* the select! arm ends: store_handle and expring_handle are dropped
SweepReturn ==
    /\ thr[Evictor].pc = "sweep_return"
    /\ locks' = [store |-> None, expiring |-> None]
    /\ thr' = [thr EXCEPT ![Evictor].pc = "idle"]
    /\ UNCHANGED << db, tasks, wg, now, last, ref, srv, doneClosed, conns >>
    /\ UNCHANGED << codecVars, readVars >>

\* the expire_at arguments of the calls: none, one that is reached at the
\* time of the calls, and one that is not
CallExpireAts == {None, Some(0), Some(1)}

NextCalls ==
    \/ \E t \in Threads :
          \/ \E k \in Keys, v \in Vals, e \in CallExpireAts :
                \/ SetCall(t, k, v, e)
                \/ SetIfNotExistsCall(t, k, v, e)
                \/ SetIfExistsCall(t, k, v, e)
          \/ \E k \in Keys :
                \/ DelCall(t, k)
                \/ GetStore(t, k)
                \/ TtlStore(t, k)
          \/ SetIfNotExistsCheck(t)
          \/ SetIfExistsCheck(t)
          \/ SetStore(t)
          \/ SetExpiring(t)
          \/ SetReturn(t)
          \/ DelStore(t)
    \/ SweepExpiring
    \/ SweepStore
    \/ SweepReturn

SpecCalls == InitLocks /\ [][NextCalls]_vars

----------------------------------------------------------------------------
(* Claims about the locks of a keyspace, under SpecCalls *)

\* thread t holds both guards of the keyspace
HoldsBoth(t) == locks.store = Some(t) /\ locks.expiring = Some(t)

\* C27: the store lock and the expiring lock of a keyspace are held
\* together by the expiry sweep only: no handler thread, whatever method
\* it is in, holds both.
C27_LockDiscipline ==
    \A t \in Threads : ~HoldsBoth(t)

\* the set of thread t holds store and waits for expiring while the sweep
\* holds expiring and waits for store
SetAndSweepBlocked(t) ==
    /\ thr[t].pc = "set_expiring"
    /\ locks.store = Some(t)
    /\ thr[Evictor].pc = "sweep_store"
    /\ locks.expiring = Some(Evictor)

\* C28: a set carrying a TTL and a tick of the expiring evictor never block
\* each other: in no reachable state the set holds store and waits for
\* expiring while the sweep holds expiring and waits for store.
C28_NoDeadlock ==
    \A t \in Threads : ~SetAndSweepBlocked(t)

\* thread t is in a conditional set, between its existence check and its
\* write
BetweenCheckAndWrite(t) ==
    /\ thr[t].op \in {"set_if_not_exists", "set_if_exists"}
    /\ thr[t].pc = "set_store"

\* both handler threads have returned from set_if_not_exists on key k, and
\* nothing else was called
BothSetIfNotExists(k) ==
    \A t \in Threads :
        /\ thr[t].op = "set_if_not_exists"
        /\ thr[t].key = k
        /\ thr[t].pc = "idle"

\* C29: the existence check and the write of a conditional set have no
\* other operation on the key in between: while a set_if_not_exists is
\* between the two its key is absent from store, and while a set_if_exists
\* is between the two its key is present; of two set_if_not_exists on the
\* same absent key exactly one returns Boolean(true), and its value is the
\* one stored.
C29_ConditionalSetsAtomic ==
    /\ \A t \in Threads :
          BetweenCheckAndWrite(t) =>
             (HmContains(db.heap[1].store, thr[t].key)
                 <=> thr[t].op = "set_if_exists")
    /\ \A k \in Keys :
          BothSetIfNotExists(k) =>
             \E t \in Threads :
                 /\ thr[t].ret = Some(TRUE)
                 /\ \A u \in Threads \ {t} : thr[u].ret = Some(FALSE)
                 /\ db.heap[1].store[k].data = thr[t].value
                 /\ db.heap[1].store[k].expire_at = thr[t].expire_at

\* a set has inserted its Value in store and not yet its entry in expiring
SetBetweenInserts == \E t \in Threads : thr[t].pc = "set_expiring"

\* C32: whenever no set is between its insert into store and its insert
\* into expiring (in particular whenever no set and no sweep is under
\* way), every key of store whose Value has expire_at = Some(t) has the
\* entry expiring[k] = t, whatever sets, conditional sets, gets, dels, ttls
\* and sweeps have run or are under way.
C32_TtlIndexCoverage ==
    ~SetBetweenInserts =>
       \A k \in DOMAIN db.heap[1].store :
           IsSome(db.heap[1].store[k].expire_at) =>
              /\ HmContains(db.heap[1].expiring, k)
              /\ db.heap[1].expiring[k] = Unwrap(db.heap[1].store[k].expire_at)

\* both threads have returned from a set with a TTL, one of a key whose
\* expire_at is not reached and is indexed, the other of a key that a sweep
\* has since removed
C32_Witness ==
    /\ \A t \in Threads : thr[t].pc = "idle" /\ thr[t].op = "set"
                             /\ IsSome(thr[t].expire_at)
    /\ thr[Evictor].pc = "idle"
    /\ thr[1].key # thr[2].key
    /\ HmContains(db.heap[1].store, thr[1].key)
    /\ HmContains(db.heap[1].expiring, thr[1].key)
    /\ ~HmContains(db.heap[1].store, thr[2].key)
    /\ ~HmContains(db.heap[1].expiring, thr[2].key)

----------------------------------------------------------------------------
(* The wire codec at byte level: Connection::write_frame and frame::parse *)

STRING_IDENT == 36
INTEGER_IDENT == 37
ARRAY_IDENT == 42
BOOLEAN_IDENT == 94
NULL_IDENT == 45
MAP_IDENT == 35
DOUBLE_IDENT == 46
ERROR_IDENT == 33

CRLF == << 13, 10 >>

\* An f64 is NaN or a number of tenths: [nan |-> TRUE] or
\* [nan |-> FALSE, tenths |-> n] for n / 10
F64NaN == [nan |-> TRUE]
F64Tenths(n) == [nan |-> FALSE, tenths |-> n]
FDouble(d) == << "Double", d >>

\* PartialEq of f64: NaN equals nothing, itself included
F64Eq(x, y) == ~x.nan /\ ~y.nan /\ x.tenths = y.tenths

\* #[derive(PartialEq)] of Frame
RECURSIVE FrameEq(_, _)
FrameEq(f, g) ==
    /\ FType(f) = FType(g)
    /\ CASE FType(f) = "Null" -> TRUE
         [] FType(f) = "Double" -> F64Eq(FVal(f), FVal(g))
         [] FType(f) \in {"Array", "Map"} ->
               /\ Len(FVal(f)) = Len(FVal(g))
               /\ \A i \in 1..Len(FVal(f)) : FrameEq(FVal(f)[i], FVal(g)[i])
         [] OTHER -> FVal(f) = FVal(g)

\* Display of an unsigned integer: its decimal digits
RECURSIVE Decimal(_)
Decimal(n) ==
    IF n < 10 THEN << 48 + n >>
              ELSE Decimal(n \div 10) \o << 48 + (n % 10) >>

\* Display of i64
DisplayI64(n) == IF n < 0 THEN << 45 >> \o Decimal(0 - n) ELSE Decimal(n)

\* Display of f64: "NaN", or the shortest decimal that reads back: no
\* fraction for a whole number
DisplayF64(d) ==
    IF d.nan THEN << 78, 97, 78 >>
    ELSE LET a == IF d.tenths < 0 THEN 0 - d.tenths ELSE d.tenths
             sign == IF d.tenths < 0 THEN << 45 >> ELSE << >>
         IN sign \o Decimal(a \div 10) \o
            (IF a % 10 = 0 THEN << >> ELSE << 46, 48 + (a % 10) >>)

\* Connection::write_frame on a stream that takes every byte: out is what
\* has been written to the stream when the call returns, ok whether it
\* returned Ok(()); the one Err is MalformedFrameForWrite.  WriteFrames is
\* the loop over the inner frames, after acc has been written.
RECURSIVE WriteFrame(_), WriteFrames(_, _)
WriteFrame(f) ==
    CASE FType(f) = "String" ->
            [out |-> << STRING_IDENT >> \o Decimal(Len(FVal(f))) \o CRLF
                        \o FVal(f) \o CRLF, ok |-> TRUE]
      [] FType(f) = "Integer" ->
            [out |-> << INTEGER_IDENT >> \o DisplayI64(FVal(f)) \o CRLF, ok |-> TRUE]
      [] FType(f) = "Boolean" ->
            [out |-> << BOOLEAN_IDENT >>
                        \o (IF FVal(f) THEN Decimal(1) ELSE Decimal(0)) \o CRLF,
             ok |-> TRUE]
      [] FType(f) = "Null" -> [out |-> << NULL_IDENT >> \o CRLF, ok |-> TRUE]
      [] FType(f) = "Double" ->
            [out |-> << DOUBLE_IDENT >> \o DisplayF64(FVal(f)) \o CRLF, ok |-> TRUE]
      [] FType(f) = "Error" ->
            [out |-> << ERROR_IDENT >> \o Decimal(Len(FVal(f))) \o CRLF
                        \o FVal(f) \o CRLF, ok |-> TRUE]
      [] FType(f) = "Array" ->
            WriteFrames(FVal(f),
                        << ARRAY_IDENT >> \o Decimal(Len(FVal(f))) \o CRLF)
      [] FType(f) = "Map" ->
            IF Len(FVal(f)) % 2 # 0
              THEN [out |-> << >>, ok |-> FALSE]
              ELSE WriteFrames(FVal(f),
                     << MAP_IDENT >> \o Decimal(Len(FVal(f)) \div 2) \o CRLF)
WriteFrames(fs, acc) ==
    IF fs = << >> THEN [out |-> acc, ok |-> TRUE]
    ELSE LET w == WriteFrame(Head(fs))
         IN IF w.ok THEN WriteFrames(Tail(fs), acc \o w.out)
                    ELSE [out |-> acc \o w.out, ok |-> FALSE]

\* atoi::atoi: an optional sign, then the decimal digits up to the first
\* other byte; None when there is no digit.  (Overflow, the other None, needs
\* more digits than any line of the specifications holds.)
RECURSIVE LeadingDigits(_)
LeadingDigits(b) ==
    IF Len(b) > 0 /\ b[1] >= 48 /\ b[1] <= 57
      THEN << b[1] >> \o LeadingDigits(Tail(b))
      ELSE << >>
AtoiI64(line) ==
    LET signed == Len(line) > 0 /\ line[1] \in {43, 45}
        d == LeadingDigits(IF signed THEN Tail(line) ELSE line)
    IN IF Len(d) = 0 THEN None
       ELSE IF signed /\ line[1] = 45 THEN Some(0 - DigitsValue(d))
       ELSE Some(DigitsValue(d))
\* atoi::<usize>: a negative number does not fit
AtoiUsize(line) ==
    LET v == AtoiI64(line)
    IN IF IsSome(v) /\ Unwrap(v) < 0 THEN None ELSE v

\* str::parse::<f64> on "NaN" and on the numerals of the form write_frame
\* produces: an optional sign, digits, and optionally '.' and digits, of
\* which the first is kept (tenths).  The other texts the specifications
\* draw are no f64 and give None; the further forms Rust reads (exponents,
\* "inf", a bare '.') are not drawn.
ParseF64(line) ==
    LET neg == Len(line) > 0 /\ line[1] = 45
        body == IF Len(line) > 0 /\ line[1] \in {43, 45} THEN Tail(line) ELSE line
        int == LeadingDigits(body)
        rest == SubSeq(body, Len(int) + 1, Len(body))
        frac == IF Len(rest) > 0 /\ rest[1] = 46 THEN Tail(rest) ELSE << >>
        t == DigitsValue(int) * 10 + (IF Len(frac) > 0 THEN frac[1] - 48 ELSE 0)
    IN IF line = << 78, 97, 78 >> THEN Some(F64NaN)
       ELSE IF /\ Len(int) > 0
               /\ \/ rest = << >>
                  \/ rest[1] = 46 /\ IsDigits(frac)
              THEN Some(F64Tenths(IF neg THEN 0 - t ELSE t))
              ELSE None

\* The Cursor<&[u8]> over buffer b is its position pos, counted from 0.
\* A parse step yields [r, pos] and, for r = "Ok", the frame (or the line):
\* r is "Ok", "Incomplete", "InvalidFormat" or "panic", pos the cursor
\* position it leaves.
ParseOk(f, pos) == [r |-> "Ok", frame |-> f, pos |-> pos]
ParseErr(e, pos) == [r |-> e, pos |-> pos]

\* the positions i of b from start on where a CRLF begins, as get_line's
\* loop over start..len-1 sees them
CrlfAt(b, start) ==
    {i \in start..(Len(b) - 2) : b[i + 1] = 13 /\ b[i + 2] = 10}

\* frame::get_line
GetLine(b, pos) ==
    IF ~(pos < Len(b)) THEN ParseErr("Incomplete", pos)
    ELSE IF CrlfAt(b, pos) = {} THEN ParseErr("Incomplete", pos)
    ELSE LET i == CHOOSE i \in CrlfAt(b, pos) : \A j \in CrlfAt(b, pos) : i <= j
         IN [r |-> "Ok", line |-> SubSeq(b, pos + 1, i), pos |-> i + 2]

\* frame::parse_string and frame::parse_error (the same code but for the
\* variant built): pos is the cursor after the header line
ParseString(b, pos, line, variant) ==
    LET len == AtoiUsize(line)
    IN IF ~IsSome(len) THEN ParseErr("InvalidFormat", pos)
       ELSE IF Len(b) - pos < Unwrap(len) + 2 THEN ParseErr("Incomplete", pos)
       ELSE ParseOk(<< variant, SubSeq(b, pos + 1, pos + Unwrap(len)) >>,
                    pos + Unwrap(len) + 2)

\* frame::parse_integer
ParseInteger(pos, line) ==
    LET int == AtoiI64(line)
    IN IF IsSome(int) THEN ParseOk(FInteger(Unwrap(int)), pos)
                      ELSE ParseErr("InvalidFormat", pos)

\* frame::parse_boolean: line[0] on an empty line is out of bounds
ParseBoolean(pos, line) ==
    IF Len(line) > 1 THEN ParseErr("InvalidFormat", pos)
    ELSE IF Len(line) = 0 THEN ParseErr("panic", pos)
    ELSE IF line[1] = 48 THEN ParseOk(FBoolean(FALSE), pos)
    ELSE IF line[1] = 49 THEN ParseOk(FBoolean(TRUE), pos)
    ELSE ParseErr("InvalidFormat", pos)

\* frame::parse_null
ParseNull(pos, line) ==
    IF line # << >> THEN ParseErr("InvalidFormat", pos)
                    ELSE ParseOk(FNull, pos)

\* frame::parse_double
ParseDouble(pos, line) ==
    IF ~IsUtf8(line) THEN ParseErr("InvalidFormat", pos)
    ELSE LET d == ParseF64(line)
         IN IF IsSome(d) THEN ParseOk(FDouble(Unwrap(d)), pos)
                         ELSE ParseErr("InvalidFormat", pos)

\* frame::parse; ParseFrames is the loop of parse_array and parse_map that
\* parses n more frames after those of acc, returning at the first error
RECURSIVE FrameParse(_, _), ParseFrames(_, _, _, _, _)
FrameParse(b, pos) ==
    LET gl == GetLine(b, pos)
    IN IF gl.r # "Ok" THEN gl
       ELSE IF gl.line = << >> THEN ParseErr("InvalidFormat", gl.pos)
       ELSE LET frame_type == gl.line[1]
                line == Tail(gl.line)
            IN CASE frame_type = STRING_IDENT ->
                       ParseString(b, gl.pos, line, "String")
                 [] frame_type = INTEGER_IDENT -> ParseInteger(gl.pos, line)
                 [] frame_type = ARRAY_IDENT ->
                       \* frame::parse_array
                       LET len == AtoiUsize(line)
                       IN IF ~IsSome(len) THEN ParseErr("InvalidFormat", gl.pos)
                          ELSE ParseFrames(b, gl.pos, Unwrap(len), << >>, "Array")
                 [] frame_type = BOOLEAN_IDENT -> ParseBoolean(gl.pos, line)
                 [] frame_type = NULL_IDENT -> ParseNull(gl.pos, line)
                 [] frame_type = MAP_IDENT ->
                       \* frame::parse_map: len pairs, len even
                       LET len == AtoiUsize(line)
                       IN IF ~IsSome(len) THEN ParseErr("InvalidFormat", gl.pos)
                          ELSE IF Unwrap(len) % 2 # 0
                            THEN ParseErr("InvalidFormat", gl.pos)
                          ELSE ParseFrames(b, gl.pos, 2 * Unwrap(len), << >>, "Map")
                 [] frame_type = DOUBLE_IDENT -> ParseDouble(gl.pos, line)
                 [] frame_type = ERROR_IDENT ->
                       ParseString(b, gl.pos, line, "Error")
                 [] OTHER -> ParseErr("InvalidFormat", gl.pos)
ParseFrames(b, pos, n, acc, variant) ==
    IF n = 0 THEN ParseOk(<< variant, acc >>, pos)
    ELSE LET p == FrameParse(b, pos)
         IN IF p.r # "Ok" THEN p
            ELSE ParseFrames(b, p.pos, n - 1, Append(acc, p.frame), variant)

----------------------------------------------------------------------------
(* The codec specification: a frame is handed to write_frame, and
   frame::parse is run, from position 0, on the bytes written, on each
   prefix of them, and on Boolean lines *)

\* how deep the frames of the codec specification nest
MaxDepth == 2

\* frames without inner frames: empty, plain and CRLF-holding payloads,
\* integers of either sign, both booleans, Null, doubles and NaN
LeafFrames ==
    {FString(<< >>), FString(CRLF), FString(B_a), FInteger(0 - 1), FInteger(10),
     FBoolean(TRUE), FBoolean(FALSE), FNull, FDouble(F64Tenths(15)),
     FDouble(F64Tenths(0 - 100)), FDouble(F64NaN), << "Error", B_a >>,
     << "Error", << >> >>}

\* arrays of zero, one and two frames and maps of zero, one, two, four
\* frames (no pair, an odd count, one pair, two pairs) over the frames of S
Nest(S) ==
    S \cup {FArray(<< >>), FMap(<< >>)}
      \cup {FArray(<< x >>) : x \in S}
      \cup {FArray(<< FNull, x >>) : x \in S}
      \cup {FMap(<< x >>) : x \in S}
      \cup {FMap(<< FString(B_a), x >>) : x \in S}
      \cup {FMap(<< FString(B_a), x, FString(B_k1), FNull >>) : x \in S}

RECURSIVE FramesOfDepth(_)
FramesOfDepth(n) == IF n = 0 THEN LeafFrames ELSE Nest(FramesOfDepth(n - 1))

CodecFrames == FramesOfDepth(MaxDepth)

\* Boolean lines: '^', a payload, CRLF
BooleanPayloads ==
    {<< >>, << 48 >>, << 49 >>, << 50 >>, << 116 >>, << 48, 48 >>, << 49, 48 >>,
     << 49, 32 >>}
BooleanLines == {<< BOOLEAN_IDENT >> \o p \o CRLF : p \in BooleanPayloads}

InitCodec ==
    /\ db = DbNew(0)
    /\ tasks = << >>
    /\ wg = {<< "db" >>}
    /\ now = 0
    /\ last = NoOp
    /\ ref = None
    /\ srv = "running"
    /\ doneClosed = FALSE
    /\ conns = << >>
    /\ thr = << >> /\ locks = << >>
    /\ cframe \in {None} \cup {Some(f) : f \in CodecFrames}
    /\ wire = None
    /\ pres = None
    /\ rbuf = << >> /\ rin = << >> /\ rres = << >>

\* write_frame(cframe) returns
Encode ==
    /\ IsSome(cframe)
    /\ wire = None
    /\ wire' = Some(WriteFrame(Unwrap(cframe)))
    /\ UNCHANGED << cframe, pres >>
    /\ UNCHANGED << db, tasks, wg, now, last, ref, srv, doneClosed, conns >>
    /\ UNCHANGED << lockVars, readVars >>

\* frame::parse on a fresh cursor over buffer b: the buffer and the result
ParseBuffer(b) == [buf |-> b, res |-> FrameParse(b, 0)]

\* the peer has received the first n bytes written and parses them
Decode(n) ==
    /\ IsSome(wire)
    /\ n \in 0..Len(Unwrap(wire).out)
    /\ pres' = Some(ParseBuffer(SubSeq(Unwrap(wire).out, 1, n)))
    /\ UNCHANGED << cframe, wire >>
    /\ UNCHANGED << db, tasks, wg, now, last, ref, srv, doneClosed, conns >>
    /\ UNCHANGED << lockVars, readVars >>

\* no frame is written: a Boolean line arrives and is parsed
DecodeBoolean(b) ==
    /\ cframe = None
    /\ pres' = Some(ParseBuffer(b))
    /\ UNCHANGED << cframe, wire >>
    /\ UNCHANGED << db, tasks, wg, now, last, ref, srv, doneClosed, conns >>
    /\ UNCHANGED << lockVars, readVars >>

\* the length of the longest serialization of CodecFrames: 8 bytes for
\* the longest leaf, 22 more for each two-pair Map around it
MaxWire == 8 + 22 * MaxDepth

NextCodec ==
    \/ Encode
    \/ \E n \in 0..MaxWire : Decode(n)
    \/ \E b \in BooleanLines : DecodeBoolean(b)

SpecCodec == InitCodec /\ [][NextCodec]_vars

----------------------------------------------------------------------------
(* Claims about the codec, under SpecCodec *)

\* frame::parse has run on some of the bytes written
Parsed == IsSome(pres) /\ IsSome(wire)
\* write_frame has returned Ok(())
Written == IsSome(wire) /\ Unwrap(wire).ok

\* p is a strict prefix of s
StrictPrefix(p, s) == Len(p) < Len(s) /\ p = SubSeq(s, 1, Len(p))

\* C15: write_frame followed by parse is the identity on frames: for every
\* frame that write_frame serializes (all eight variants, payloads holding
\* CRLF, empty strings, nested arrays, maps of any number of pairs, one
\* included), parsing the bytes written returns Ok of an equal frame.
C15_RoundTrip ==
    (Written /\ Parsed /\ Unwrap(pres).buf = Unwrap(wire).out)
       => /\ Unwrap(pres).res.r = "Ok"
          /\ FrameEq(Unwrap(pres).res.frame, Unwrap(cframe))

\* C16: for every frame and every strict prefix of its serialization, the
\* empty one included, parse returns Incomplete: never a frame, never
\* InvalidFormat.
C16_PrefixIncomplete ==
    (Written /\ Parsed /\ StrictPrefix(Unwrap(pres).buf, Unwrap(wire).out))
       => Unwrap(pres).res.r = "Incomplete"

\* C17: whenever parse returns Incomplete, the cursor is where it was before
\* the call (position 0 here), whatever the buffer and the frame type.
C17_IncompleteKeepsCursor ==
    (IsSome(pres) /\ Unwrap(pres).res.r = "Incomplete")
       => Unwrap(pres).res.pos = 0

\* the frame holds, at the top or nested, a Map of an odd number of frames
RECURSIVE HasOddMap(_)
HasOddMap(f) ==
    /\ FType(f) \in {"Array", "Map"}
    /\ \/ FType(f) = "Map" /\ Len(FVal(f)) % 2 # 0
       \/ \E i \in 1..Len(FVal(f)) : HasOddMap(FVal(f)[i])

\* C19: write_frame of a frame holding a Map with an odd number of inner
\* frames, at the top level or nested in an Array or a Map, fails with
\* MalformedFrameForWrite and has written no byte.
C19_OddMapWritesNothing ==
    (IsSome(wire) /\ HasOddMap(Unwrap(cframe)))
       => (~Unwrap(wire).ok /\ Unwrap(wire).out = << >>)

\* C20: parse of a Boolean line '^' payload CRLF returns Boolean(false) for
\* the payload '0', Boolean(true) for '1', and InvalidFormat for every
\* other payload, the empty one and those longer than one byte included.
C20_Boolean ==
    \A p \in BooleanPayloads :
        (IsSome(pres) /\ Unwrap(pres).buf = << BOOLEAN_IDENT >> \o p \o CRLF)
           => LET res == Unwrap(pres).res
              IN CASE p = << 48 >> -> res.r = "Ok" /\ res.frame = FBoolean(FALSE)
                   [] p = << 49 >> -> res.r = "Ok" /\ res.frame = FBoolean(TRUE)
                   [] OTHER -> res.r = "InvalidFormat"

----------------------------------------------------------------------------
(* The read_frame specification: one Connection whose peer sends a stream
   of bytes, in pieces of any size, and then closes; read_frame is called
   until it returns something else than a frame *)

\* the frames and lines a stream is made of, at most
MaxStream == 2

\* what the peer sends whole: serializations of frames, a line that is no
\* frame, a Map header with an odd number, a Boolean without payload
StreamUnits ==
    {WriteFrame(f).out :
        f \in {FNull, FString(B_a), FBoolean(TRUE), FArray(<< FNull >>)}}
    \cup {<< 120, 13, 10 >>, << MAP_IDENT, 49, 13, 10 >>, << BOOLEAN_IDENT, 13, 10 >>}

\* the streams of n units, and their prefixes: the peer may close anywhere
RECURSIVE UnitStreams(_)
UnitStreams(n) ==
    IF n = 0 THEN {<< >>}
    ELSE {s \o u : s \in UnitStreams(n - 1), u \in StreamUnits}
\* the longest stream, in bytes: the longest unit is 7 bytes
MaxStreamLen == 7 * MaxStream

Streams ==
    {SubSeq(s, 1, Min(n, Len(s))) :
        s \in UnitStreams(MaxStream), n \in 0..MaxStreamLen}

InitRead ==
    /\ db = DbNew(0)
    /\ tasks = << >>
    /\ wg = {<< "db" >>}
    /\ now = 0
    /\ last = NoOp
    /\ ref = None
    /\ srv = "running"
    /\ doneClosed = FALSE
    /\ conns = << >>
    /\ thr = << >> /\ locks = << >>
    /\ cframe = << >> /\ wire = << >> /\ pres = << >>
    /\ rbuf = << >>
    /\ rin \in Streams
    /\ rres = [pc |-> "parse", ret |-> << >>]

\* read_frame is called again after it returned a frame
ReadFrameCall ==
    /\ rres.pc = "returned"
    /\ rres.ret[1] = "Some"
    /\ rres' = [pc |-> "parse", ret |-> << >>]
    /\ UNCHANGED << rbuf, rin >>
    /\ UNCHANGED << db, tasks, wg, now, last, ref, srv, doneClosed, conns >>
    /\ UNCHANGED << lockVars, codecVars >>

\* Connection::parse_frame and what read_frame does with its result
ParseFrame ==
    /\ rres.pc = "parse"
    /\ \E p \in {FrameParse(rbuf, 0)} :
          CASE p.r = "Ok" ->
                  /\ rbuf' = SubSeq(rbuf, p.pos + 1, Len(rbuf))
                  /\ rres' = [pc |-> "returned", ret |-> << "Some", p.frame >>]
            [] p.r = "Incomplete" ->
                  /\ rres' = [rres EXCEPT !.pc = "read"]
                  /\ UNCHANGED rbuf
            [] p.r = "InvalidFormat" ->
                  /\ rres' = [pc |-> "returned", ret |-> << "Frame" >>]
                  /\ UNCHANGED rbuf
            [] p.r = "panic" ->
                  /\ rres' = [pc |-> "returned", ret |-> << "panic" >>]
                  /\ UNCHANGED rbuf
    /\ UNCHANGED rin
    /\ UNCHANGED << db, tasks, wg, now, last, ref, srv, doneClosed, conns >>
    /\ UNCHANGED << lockVars, codecVars >>

\* stream.read_buf(&mut self.buf) returns n > 0: the next n bytes of the
\* stream are appended to buf
ReadBuf(n) ==
    /\ rres.pc = "read"
    /\ n >= 1 /\ n <= Len(rin)
    /\ rbuf' = rbuf \o SubSeq(rin, 1, n)
    /\ rin' = SubSeq(rin, n + 1, Len(rin))
    /\ rres' = [rres EXCEPT !.pc = "parse"]
    /\ UNCHANGED << db, tasks, wg, now, last, ref, srv, doneClosed, conns >>
    /\ UNCHANGED << lockVars, codecVars >>

\* the step ReadBufZero below without the test of buf
ReadBufZero_AlwaysNone ==
    /\ rres.pc = "read"
    /\ rin = << >>
    /\ rres' = [pc |-> "returned", ret |-> << "None" >>]
    /\ UNCHANGED << rbuf, rin >>
    /\ UNCHANGED << db, tasks, wg, now, last, ref, srv, doneClosed, conns >>
    /\ UNCHANGED << lockVars, codecVars >>

\* read_buf returns 0, the peer having closed after the last byte:
\* Ok(None) if buf is empty, Err(Reset) if not
ReadBufZero ==
    /\ rres.pc = "read"
    /\ rin = << >>
    /\ rres' = [pc |-> "returned",
                ret |-> IF rbuf = << >> THEN << "None" >> ELSE << "Reset" >>]
    /\ UNCHANGED << rbuf, rin >>
    /\ UNCHANGED << db, tasks, wg, now, last, ref, srv, doneClosed, conns >>
    /\ UNCHANGED << lockVars, codecVars >>

\* read_buf fails: Err(Io)
ReadBufErr ==
    /\ rres.pc = "read"
    /\ rres' = [pc |-> "returned", ret |-> << "Io" >>]
    /\ UNCHANGED << rbuf, rin >>
    /\ UNCHANGED << db, tasks, wg, now, last, ref, srv, doneClosed, conns >>
    /\ UNCHANGED << lockVars, codecVars >>

NextRead ==
    \/ ReadFrameCall
    \/ ParseFrame
    \/ \E n \in 1..MaxStreamLen : ReadBuf(n)
    \/ ReadBufZero
    \/ ReadBufErr

SpecRead == InitRead /\ [][NextRead]_vars

----------------------------------------------------------------------------
(* Claims about read_frame, under SpecRead *)

\* C18: when the stream ends (read_buf returns 0), read_frame returns
\* Ok(None) if its buffer is empty and Err(Reset) if the buffer holds bytes,
\* which are then an incomplete frame; it never returns Ok(None) while
\* unconsumed bytes remain in the buffer.
C18_EndOfStream ==
    [][/\ (rres.pc = "read" /\ rres'.pc = "returned" /\ rres'.ret # << "Io" >>)
          => /\ rin = << >>
             /\ IF rbuf = << >>
                  THEN rres'.ret = << "None" >>
                  ELSE /\ rres'.ret = << "Reset" >>
                       /\ FrameParse(rbuf, 0).r = "Incomplete"
       /\ (rres'.pc = "returned" /\ rres'.ret = << "None" >>) => rbuf' = << >>
    ]_vars

\* read_frame has returned a frame, was called again, and the stream ended
\* inside the next frame: Err(Reset) with the partial frame in the buffer
C18_Witness ==
    /\ rres.pc = "returned"
    /\ rres.ret = << "Reset" >>
    /\ rbuf # << >>
    /\ rin = << >>
    /\ rbuf[1] = STRING_IDENT

\* the frames f and g are the same value: as FrameEq, but NaN is itself
RECURSIVE FrameSame(_, _)
FrameSame(f, g) ==
    /\ FType(f) = FType(g)
    /\ CASE FType(f) = "Null" -> TRUE
         [] FType(f) = "Double" ->
               /\ FVal(f).nan = FVal(g).nan
               /\ ~FVal(f).nan => FVal(f).tenths = FVal(g).tenths
         [] FType(f) \in {"Array", "Map"} ->
               /\ Len(FVal(f)) = Len(FVal(g))
               /\ \A i \in 1..Len(FVal(f)) : FrameSame(FVal(f)[i], FVal(g)[i])
         [] OTHER -> FVal(f) = FVal(g)

\* the bytes parsed are a Map header declaring N pairs and the
\* serializations of the 2N frames of cframe, a Map
MapOfPairsParsed ==
    /\ Written /\ Parsed
    /\ FType(Unwrap(cframe)) = "Map"
    /\ Unwrap(pres).buf = Unwrap(wire).out

\* C21: a Map header declaring N pairs, N odd or even, followed by 2N
\* well-formed frames parses to the Map of exactly those 2N frames in
\* order, and the cursor ends past all of them.
C21_MapOfPairs ==
    MapOfPairsParsed
       => /\ Unwrap(pres).res.r = "Ok"
          /\ FrameSame(Unwrap(pres).res.frame, Unwrap(cframe))
          /\ Unwrap(pres).res.pos = Len(Unwrap(pres).buf)

----------------------------------------------------------------------------
(* The command specification: command::parse is run on a frame, at some
   reading of the clock.  cframe is the frame, pres the Result returned. *)

B_1 == << 49 >>
B_1000 == << 49, 48, 48, 48 >>

\* the option maps and flag arrays of create and set
EvictorMaps == {FMap(<< Str(B_evictor), Str(B_lru) >>)}
CreateFlagArrays == {FArray(<< Str(B_if_not_exists) >>)}
ExpiryMaps ==
    {FMap(<< Str(B_expire_at), Str(B_1) >>),
     FMap(<< Str(B_expire_after), Str(B_1000) >>),
     FMap(<< Str(B_expire_at), Str(B_1), Str(B_expire_after), Str(B_1000) >>),
     FMap(<< Str(B_expire_after), Str(B_1000), Str(B_expire_at), Str(B_1) >>)}
SetFlagArrays ==
    {FArray(<< Str(B_if_exists) >>),
     FArray(<< Str(B_if_not_exists) >>),
     FArray(<< Str(B_if_exists), Str(B_if_not_exists) >>),
     FArray(<< Str(B_if_not_exists), Str(B_if_exists) >>)}

\* the optional parts: none, either one, or both in either order
OptionalParts(M, F) ==
    {<< >>} \cup {<< m >> : m \in M} \cup {<< f >> : f \in F}
      \cup {<< m, f >> : m \in M, f \in F} \cup {<< f, m >> : m \in M, f \in F}

\* ping and keyspaces, in either case of letters, alone and with a further
\* element
NoArgFrames ==
    {FArray(<< Str(w) >> \o x) :
        w \in {B_ping, B_keyspaces, << 80, 73, 78, 71 >>},
        x \in {<< >>, << Str(B_a) >>, << FNull >>, << Str(B_a), Str(B_k1) >>}}

\* option maps naming the evictor twice, and option maps of an odd number
\* of inner frames (Frame::Map holds any Vec<Frame>)
RepeatedEvictorMaps ==
    {FMap(<< Str(B_evictor), Str(B_lru), Str(B_evictor), Str(B_random) >>),
     FMap(<< Str(B_evictor), Str(B_random), Str(B_evictor), Str(B_random) >>)}
OddCreateMaps ==
    {FMap(<< Str(B_evictor) >>),
     FMap(<< Str(B_evictor), Str(B_lru), Str(B_evictor) >>),
     FMap(<< Str(B_a) >>)}
OddSetMaps ==
    {FMap(<< Str(B_expire_at) >>),
     FMap(<< Str(B_expire_after), Str(B_1000), Str(B_expire_at) >>),
     FMap(<< Str(B_a) >>)}

CmdFrames ==
    {FArray(<< Str(B_create), Str(B_a) >> \o o) :
        o \in OptionalParts(EvictorMaps, CreateFlagArrays)}
    \cup {FArray(<< Str(B_set), Str(B_a), Str(B_k1), Str(B_v1) >> \o o) :
            o \in OptionalParts(ExpiryMaps, SetFlagArrays)}
    \cup NoArgFrames
    \cup {FArray(<< Str(B_create), Str(B_a), m >> \o o) :
            m \in RepeatedEvictorMaps \cup OddCreateMaps,
            o \in {<< >>} \cup {<< f >> : f \in CreateFlagArrays}}
    \cup {FArray(<< Str(B_set), Str(B_a), Str(B_k1), Str(B_v1), m >> \o o) :
            m \in OddSetMaps,
            o \in {<< >>} \cup {<< f >> : f \in SetFlagArrays}}

\* the milliseconds the clock reads within the second
Millis == {0, 999}

InitCmd ==
    /\ db = DbNew(0)
    /\ tasks = << >>
    /\ wg = {<< "db" >>}
    /\ now = 0
    /\ last = NoOp
    /\ ref = None
    /\ srv = "running"
    /\ doneClosed = FALSE
    /\ conns = << >>
    /\ thr = << >> /\ locks = << >>
    /\ cframe \in {Some(f) : f \in CmdFrames}
    /\ wire = None
    /\ pres = None
    /\ rbuf = << >> /\ rin = << >> /\ rres = << >>

\* command::parse(cframe) returns, the clock reading now seconds and ms
\* milliseconds
ParseCommand(ms) ==
    /\ pres' = Some(CommandParse(Unwrap(cframe), now, ms))
    /\ UNCHANGED << cframe, wire >>
    /\ UNCHANGED << db, tasks, wg, now, last, ref, srv, doneClosed, conns >>
    /\ UNCHANGED << lockVars, readVars >>

NextCmd ==
    \/ \E ms \in Millis : ParseCommand(ms)
    \/ Tick

SpecCmd == InitCmd /\ [][NextCmd]_vars

----------------------------------------------------------------------------
(* Claims about command::parse, under SpecCmd *)

\* the tokens of the frame parsed and the command word
CmdTokens == FVal(Unwrap(cframe))
CmdWord == ToLowercase(FVal(CmdTokens[1]))

\* the words at the key positions of Map token m, and the words of Array
\* token a
MapKeyWords(m) == {ToLowercase(FVal(FVal(m)[i])) : i \in {j \in 1..Len(FVal(m)) : j % 2 = 1}}
ArrayWords(a) == {ToLowercase(FVal(FVal(a)[i])) : i \in 1..Len(FVal(a))}

\* the set command gives both expiry options, or both existence flags
GivesBothExpiries ==
    \E i \in 1..Len(CmdTokens) :
        /\ FType(CmdTokens[i]) = "Map"
        /\ {B_expire_at, B_expire_after} \subseteq MapKeyWords(CmdTokens[i])
GivesBothFlags ==
    \E i \in 1..Len(CmdTokens) :
        /\ FType(CmdTokens[i]) = "Array"
        /\ {B_if_exists, B_if_not_exists} \subseteq ArrayWords(CmdTokens[i])

\* C22: command::parse rejects a set that gives both expire_at and
\* expire_after and a set that gives both if_exists and if_not_exists; no
\* Set it returns has if_exists and if_not_exists both true.
C22_SetExclusive ==
    (IsSome(pres) /\ CmdWord = B_set)
       => LET res == Unwrap(pres)
          IN /\ (GivesBothExpiries \/ GivesBothFlags) => ~res.ok
             /\ res.ok => ~(res.val.if_exists /\ res.val.if_not_exists)

\* a set giving both expiry options, in the place where Set::parse reads
\* them, has been parsed
C22_Witness ==
    /\ IsSome(pres) /\ CmdWord = B_set
    /\ Len(CmdTokens) = 5
    /\ GivesBothExpiries
    /\ ~Unwrap(pres).ok

\* the option map and the flag array of the frame parsed, if given
MapTokens == {i \in 1..Len(CmdTokens) : FType(CmdTokens[i]) = "Map"}
ArrayTokens == {i \in 1..Len(CmdTokens) : FType(CmdTokens[i]) = "Array"}
FlagGiven(w) == \E i \in ArrayTokens : w \in ArrayWords(CmdTokens[i])
OptionGiven(w) == \E i \in MapTokens : w \in MapKeyWords(CmdTokens[i])

\* C23: the optional parts of create and set are independently optional
\* and may come in either order: create with only the evictor option, only
\* the if_not_exists flag, or both in either order, and set with only an
\* expiry option, only an existence flag, or both in either order, parse
\* to the command carrying exactly the options given, whatever the order.
C23_OptionalPartsAnyOrder ==
    (IsSome(pres) /\ CmdWord \in {B_create, B_set}
       /\ ~GivesBothExpiries /\ ~GivesBothFlags)
       => LET res == Unwrap(pres)
          IN /\ res.ok
             /\ CmdWord = B_create =>
                   /\ res.val.c = "Create"
                   /\ res.val.evictor = (IF OptionGiven(B_evictor) THEN "Lru" ELSE "Nop")
                   /\ res.val.if_not_exists = FlagGiven(B_if_not_exists)
             /\ CmdWord = B_set =>
                   /\ res.val.c = "Set"
                   /\ res.val.if_exists = FlagGiven(B_if_exists)
                   /\ res.val.if_not_exists = FlagGiven(B_if_not_exists)
                   /\ IsSome(res.val.expire_at) = (MapTokens # {})
                   /\ OptionGiven(B_expire_at) => res.val.expire_at = Some(1)

\* C24: ping and keyspaces take no arguments: command::parse returns an
\* error for an Array whose first element names ping or keyspaces and that
\* holds any further element.
C24_NoArguments ==
    (IsSome(pres) /\ CmdWord \in {B_ping, B_keyspaces} /\ Len(CmdTokens) > 1)
       => ~Unwrap(pres).ok

\* the option map of the frame parsed names the evictor more than once
EvictorGivenTwice ==
    \E i \in MapTokens :
        \E j, k \in 1..Len(FVal(CmdTokens[i])) :
            /\ j < k /\ j % 2 = 1 /\ k % 2 = 1
            /\ FType(FVal(CmdTokens[i])[j]) = "String"
            /\ FType(FVal(CmdTokens[i])[k]) = "String"
            /\ ToLowercase(FVal(FVal(CmdTokens[i])[j])) = B_evictor
            /\ ToLowercase(FVal(FVal(CmdTokens[i])[k])) = B_evictor

\* C38: command::parse rejects a create command in which the evictor
\* option appears more than once.
C38_RepeatedEvictorRejected ==
    (IsSome(pres) /\ CmdWord = B_create /\ EvictorGivenTwice)
       => ~Unwrap(pres).ok

\* the option map of the frame parsed holds an odd number of inner frames
OddOptionsMap ==
    \E i \in MapTokens : Len(FVal(CmdTokens[i])) % 2 = 1

\* C39: command::parse is total: for every frame, a create or a set whose
\* options Map holds an odd number of inner frames included, it returns a
\* Command or a ParseCommandError and never aborts.
C39_ParseTotal ==
    IsSome(pres) => ~IsPanic(Unwrap(pres))

\* the same over the frames whose options Map holds an even number of
\* inner frames
ParseTotalEvenMaps ==
    (IsSome(pres) /\ ~OddOptionsMap) => ~IsPanic(Unwrap(pres))

----------------------------------------------------------------------------
(* The sweep specification: keyspace "a" holding more keys than one tick of
   the expiring evictor samples, each key as a sequence of sets left it,
   and the ticks of the evictor while the clock runs *)

\* the keys of the keyspace: one more than EXPIRING_EVICTOR_SAMPLE_SIZE
MaxSweepKeys == 6
SweepKeys == {<< 107, 48 + i >> : i \in 1..MaxSweepKeys}

\* what the sets so far left of a key, every key having been set: the Value
\* of a set without TTL; the Value and the expiring entry of a set with
\* expire_at 0 or 1; or the Value of a set without TTL over the expiring
\* entry of an earlier set with expire_at 0
KeyShapes == {"plain", "ttl0", "ttl1", "stale"}

\* the keyspace in which each key k has the shape f[k]
KeyspaceOfShapes(f) ==
    LET inExpiring == {k \in SweepKeys : f[k] \in {"ttl0", "ttl1", "stale"}}
    IN [KeyspaceNew("Nop") EXCEPT
          !.store = [k \in SweepKeys |->
                       ValueNew(B_v1,
                                CASE f[k] = "ttl0" -> Some(0)
                                  [] f[k] = "ttl1" -> Some(1)
                                  [] OTHER -> None, 0)],
          !.expiring = [k \in inExpiring |-> IF f[k] = "ttl1" THEN 1 ELSE 0]]

InitSweep ==
    LET r == ExecCreate(DbNew(0), CmdCreate(B_a, "Nop", FALSE))
    IN /\ \E f \in [SweepKeys -> KeyShapes] :
             db = [r.db EXCEPT !.heap[1] = KeyspaceOfShapes(f)]
       /\ tasks = [x \in r.spawn |-> "running"]
       /\ wg = {<< "db" >>} \cup r.take \cup r.spawn
       /\ now = 0
       /\ last = NoOp
       /\ ref = None
       /\ srv = "running"
       /\ doneClosed = FALSE
       /\ conns = << >>
       /\ ExtIdle

NextSweep ==
    \/ ExpiringEvictorTick(1)
    \/ Tick

SpecSweep == InitSweep /\ [][NextSweep]_vars

----------------------------------------------------------------------------
(* Claims about the expiring evictor, under SpecSweep *)

\* the entries of expiring that the step removes
SweptEntries == DOMAIN KsA.expiring \ DOMAIN KsA'.expiring

\* C31: a tick of the expiring evictor examines at most 5 entries of
\* expiring: it removes at most 5, each with expire_at <= now and each from
\* store too; it removes no entry whose expire_at > now from expiring and
\* leaves what store holds under that key as it was, and it removes nothing
\* from store but the keys of the entries it removes; when expiring holds at
\* most 5 entries, none with expire_at <= now is left after the tick.
C31_ExpiringEvictorTick ==
    [][ExpiringEvictorTick(1) =>
        /\ Cardinality(SweptEntries) <= EXPIRING_EVICTOR_SAMPLE_SIZE
        /\ \A k \in SweptEntries :
              KsA.expiring[k] <= now /\ ~HmContains(KsA'.store, k)
        /\ \A k \in DOMAIN KsA.expiring :
              KsA.expiring[k] > now =>
                 /\ HmContains(KsA'.expiring, k)
                 /\ KsA'.expiring[k] = KsA.expiring[k]
                 /\ HmContains(KsA.store, k) =>
                       (HmContains(KsA'.store, k) /\ KsA'.store[k] = KsA.store[k])
        /\ DOMAIN KsA.store \ DOMAIN KsA'.store \subseteq SweptEntries
        /\ Cardinality(DOMAIN KsA.expiring) <= EXPIRING_EVICTOR_SAMPLE_SIZE
              => \A k \in DOMAIN KsA'.expiring : KsA'.expiring[k] > now
        /\ Cardinality(DOMAIN KsA.expiring) > EXPIRING_EVICTOR_SAMPLE_SIZE
              => Cardinality(DOMAIN KsA'.expiring)
                    >= Cardinality(DOMAIN KsA.expiring) - EXPIRING_EVICTOR_SAMPLE_SIZE
    ]_vars

\* a tick over more expired entries than it samples has removed five keys
\* and left one entry, with its key still in store
C31_Witness ==
    /\ Cardinality(DOMAIN KsA.expiring) = 1
    /\ \E k \in DOMAIN KsA.expiring :
          KsA.expiring[k] <= now /\ HmContains(KsA.store, k)
    /\ Cardinality(DOMAIN KsA.store) = 1

----------------------------------------------------------------------------
(* The eviction specification: keyspace "a" created with any evictor on a Db
   with or without a max-memory threshold, clients that set, get and ttl
   more keys than one tick of the max-memory evictor samples, the ticks of
   that evictor with every outcome of the memory probe, and the clock.
   ref records, per key, the time of its latest set, get or ttl. *)

\* the keys of the keyspace: one more than MAX_MEMORY_EVICTOR_SAMPLE_SIZE
MaxEvictKeys == 4
EvictKeys == {<< 107, 48 + i >> : i \in 1..MaxEvictKeys}

Evictors == {"Nop", "Random", "Lru"}

\* the commands that write or touch last_accessed
TouchCommands ==
    {CmdSet(B_a, k, B_v1, None, FALSE, FALSE) : k \in EvictKeys}
    \cup {CmdGet(B_a, k) : k \in EvictKeys}
    \cup {CmdTtl(B_a, k) : k \in EvictKeys}

InitEvict ==
    /\ \E m \in MaxMemories, e \in Evictors :
          \E r \in {ExecCreate(DbNew(m), CmdCreate(B_a, e, FALSE))} :
             /\ db = r.db
             /\ tasks = [x \in r.spawn |-> "running"]
             /\ wg = {<< "db" >>} \cup r.take \cup r.spawn
    /\ now = 0
    /\ last = NoOp
    /\ ref = EmptyMap
    /\ srv = "running"
    /\ doneClosed = FALSE
    /\ conns = << >>
    /\ ExtIdle

\* a set, get or ttl, run to completion
TouchOp(cmd) ==
    /\ \E r \in {Execute(db, cmd, now)} :
          /\ db' = r.db
          /\ last' = OpOf(cmd, r.res)
    /\ ref' = HmInsert(ref, cmd.key, now)
    /\ UNCHANGED << tasks, wg, now, srvVars >>

Probes == {"error", "below", "above"}

NextEvict ==
    \/ \E cmd \in TouchCommands : TouchOp(cmd)
    \/ \E probe \in Probes : MaxMemoryEvictorTick(1, probe)
    \/ Tick

SpecEvict == InitEvict /\ [][NextEvict]_vars

----------------------------------------------------------------------------
(* Claims about the max-memory evictor, under SpecEvict *)

\* the keys the step removes from store
EvictedKeys == DOMAIN KsA.store \ DOMAIN KsA'.store

\* C33: a key leaves store by max-memory eviction only in a keyspace whose
\* evictor is Random or Lru, only with a non-zero max-memory threshold and
\* only on a tick of the evictor whose probe is not below the threshold;
\* such a tick removes at most one key and changes no other entry, and a
\* tick whose probe is below the threshold or fails removes none.
C33_MaxMemoryEviction ==
    [][/\ EvictedKeys # {} =>
             /\ KsA.evictor \in {"Random", "Lru"}
             /\ db.server_max_memory > 0
             /\ MaxMemoryEvictorTick(1, "above")
             /\ Cardinality(EvictedKeys) = 1
             /\ \A k \in DOMAIN KsA'.store : KsA'.store[k] = KsA.store[k]
       /\ \A probe \in {"error", "below"} :
             MaxMemoryEvictorTick(1, probe) => KsA' = KsA
    ]_vars

\* a tick has removed one key of a full Random keyspace
C33_Witness ==
    /\ KsA.evictor = "Random"
    /\ last = NoOp
    /\ Cardinality(DOMAIN ref) = MaxEvictKeys
    /\ Cardinality(DOMAIN KsA.store) = MaxEvictKeys - 1

\* the samples of the store that hold key k
SamplesWith(k) ==
    {S \in Samples(KsA.store, MAX_MEMORY_EVICTOR_SAMPLE_SIZE) : k \in S}

\* C34: last_accessed of a key in store is the time of its latest set, get
\* or ttl; the key an Lru tick removes is one of least last_accessed among
\* the up to 3 entries sampled, so no sampled key read more recently is
\* removed in its place; and a tick over a non-empty store whose keys were
\* all accessed before the tick removes a key.
C34_LruEviction ==
    [][/\ \A k \in DOMAIN KsA'.store : KsA'.store[k].last_accessed = ref'[k]
       /\ (KsA.evictor = "Lru" /\ MaxMemoryEvictorTick(1, "above")) =>
             /\ \A k \in EvictedKeys :
                   \E S \in SamplesWith(k) : \A j \in S : ref[k] <= ref[j]
             /\ (DOMAIN KsA.store # {} /\ \A k \in DOMAIN KsA.store : ref[k] < now)
                   => EvictedKeys # {}
    ]_vars

\* an Lru tick has removed a key while a key accessed earlier, outside the
\* sample, and keys accessed later are still in store
C34_Witness ==
    /\ KsA.evictor = "Lru"
    /\ last = NoOp
    /\ Cardinality(DOMAIN ref) = MaxEvictKeys
    /\ Cardinality(DOMAIN KsA.store) = MaxEvictKeys - 1
    /\ \E k \in DOMAIN ref \ DOMAIN KsA.store :
          /\ \E j \in DOMAIN KsA.store : ref[j] < ref[k]
          /\ \E j \in DOMAIN KsA.store : ref[j] > ref[k]

----------------------------------------------------------------------------
(* The registry-lock specification: a Db holding keyspace "a" and two
   handler threads that run key commands and Drop through Db::execute, each
   step being what a thread does between two operations on the RwLock of
   the registry.  locks is [readers, writer]: the threads holding a read
   guard and the thread holding the write guard. *)

\* the calls of Db::execute each thread makes at most
MaxRegCalls == 2

\* a thread outside Db::execute that has made n calls
RegThreadNew ==
    [pc |-> "idle", cmd |-> CmdPing, inst |-> 0, res |-> Ok(FNull), n |-> 0]

InitReg ==
    LET r == ExecCreate(DbNew(0), CmdCreate(B_a, "Nop", FALSE))
    IN /\ db = r.db
       /\ tasks = [x \in r.spawn |-> "running"]
       /\ wg = {<< "db" >>} \cup r.take \cup r.spawn
       /\ now = 0
       /\ last = NoOp
       /\ ref = None
       /\ srv = "running"
       /\ doneClosed = FALSE
       /\ conns = << >>
       /\ thr = [t \in Threads |-> RegThreadNew]
       /\ locks = [readers |-> {}, writer |-> None]
       /\ cframe = << >> /\ wire = << >> /\ pres = << >>
       /\ rbuf = << >> /\ rin = << >> /\ rres = << >>

\* the method of Keyspace a key command calls
KeyspaceCall(ks, cmd, t) ==
    CASE cmd.c = "Set" ->
           IF cmd.if_exists
             THEN KsSetIfExists(ks, cmd.key, cmd.value, cmd.expire_at, t)
             ELSE IF cmd.if_not_exists
                    THEN KsSetIfNotExists(ks, cmd.key, cmd.value, cmd.expire_at, t)
                    ELSE KsSet(ks, cmd.key, cmd.value, cmd.expire_at, t)
      [] cmd.c = "Get" -> KsGet(ks, cmd.key, t)
      [] cmd.c = "Del" -> KsDel(ks, cmd.key)
      [] cmd.c = "Count" -> KsCount(ks)
      [] cmd.c = "Ttl" -> KsTtl(ks, cmd.key, t)

\* thread t enters exec_set, exec_get, exec_del, exec_count or exec_ttl:
\* self.keyspaces.read() is granted and handle.get looks the name up
KeyCommandLookup(t, cmd) ==
    /\ thr[t].pc = "idle"
    /\ thr[t].n < MaxRegCalls
    /\ locks.writer = None
    /\ locks' = [locks EXCEPT !.readers = @ \cup {t}]
    /\ thr' = [thr EXCEPT ![t] =
                 IF HmContains(db.keyspaces, cmd.keyspace)
                   THEN [pc |-> "found", cmd |-> cmd,
                         inst |-> db.keyspaces[cmd.keyspace],
                         res |-> Ok(FNull), n |-> thr[t].n + 1]
                   ELSE [pc |-> "return", cmd |-> cmd, inst |-> 0,
                         res |-> Err(KeyspaceDoesNotExist(cmd.keyspace)),
                         n |-> thr[t].n + 1]]
    /\ UNCHANGED << db, tasks, wg, now, last, ref, srv, doneClosed, conns >>
    /\ UNCHANGED << codecVars, readVars >>

\* the method of the Keyspace found runs, the read guard still held
KeyCommandRun(t) ==
    /\ thr[t].pc = "found"
    /\ \E r \in {KeyspaceCall(db.heap[thr[t].inst], thr[t].cmd, now)} :
          /\ db' = [db EXCEPT !.heap[thr[t].inst] = r.ks]
          /\ thr' = [thr EXCEPT ![t].pc = "return", ![t].res = r.res]
    /\ UNCHANGED locks
    /\ UNCHANGED << tasks, wg, now, last, ref, srv, doneClosed, conns >>
    /\ UNCHANGED << codecVars, readVars >>

\* the exec_ function returns: the read guard is dropped
KeyCommandReturn(t) ==
    /\ thr[t].pc = "return"
    /\ locks' = [locks EXCEPT !.readers = @ \ {t}]
    /\ thr' = [thr EXCEPT ![t].pc = "idle"]
    /\ UNCHANGED << db, tasks, wg, now, last, ref, srv, doneClosed, conns >>
    /\ UNCHANGED << codecVars, readVars >>

\* thread t enters exec_drop and asks for self.keyspaces.write()
DropCall(t, cmd) ==
    /\ thr[t].pc = "idle"
    /\ thr[t].n < MaxRegCalls
    /\ thr' = [thr EXCEPT ![t] = [pc |-> "drop_write", cmd |-> cmd, inst |-> 0,
                                  res |-> Ok(FNull), n |-> thr[t].n + 1]]
    /\ UNCHANGED << db, locks >>
    /\ UNCHANGED << tasks, wg, now, last, ref, srv, doneClosed, conns >>
    /\ UNCHANGED << codecVars, readVars >>

\* self.keyspaces.write() is granted, no guard being held by anyone; the
\* name is removed under it and exec_drop returns, dropping the guard
DropWrite(t) ==
    /\ thr[t].pc = "drop_write"
    /\ locks.readers = {} /\ locks.writer = None
    /\ \E r \in {ExecDrop(db, thr[t].cmd)} :
          /\ db' = r.db
          /\ wg' = wg \ r.release
          /\ thr' = [thr EXCEPT ![t].pc = "idle", ![t].res = r.res]
    /\ UNCHANGED locks
    /\ UNCHANGED << tasks, now, last, ref, srv, doneClosed, conns >>
    /\ UNCHANGED << codecVars, readVars >>

RegCommands == UNION {KeyCommandsOn(n) \cup SetsOn(n) : n \in DbNames}

NextReg ==
    \E t \in Threads :
        \/ \E cmd \in RegCommands : KeyCommandLookup(t, cmd)
        \/ KeyCommandRun(t)
        \/ KeyCommandReturn(t)
        \/ \E n \in DbNames, ie \in BOOLEAN : DropCall(t, CmdDrop(n, ie))
        \/ DropWrite(t)

SpecReg == InitReg /\ [][NextReg]_vars

----------------------------------------------------------------------------
(* Claims about the registry lock, under SpecReg *)

\* the keyspace thread t found is still registered under the name it
\* looked up
StillRegistered(t) ==
    /\ HmContains(db.keyspaces, thr[t].cmd.keyspace)
    /\ db.keyspaces[thr[t].cmd.keyspace] = thr[t].inst

\* from the lookup to the return of a key command that found its keyspace,
\* the keyspace stays registered
C36_LookupHolds ==
    \A t \in Threads :
        (thr[t].pc \in {"found", "return"} /\ thr[t].inst # 0)
           => StillRegistered(t)

\* C36: no Drop of a keyspace takes effect between the lookup of that
\* keyspace by a Set, Get, Del, Count or Ttl and the return of that
\* command: a key command either fails with KeyspaceDoesNotExist or runs
\* against a keyspace that is registered from its lookup to its return.
C36_DropExcluded ==
    /\ C36_LookupHolds
    /\ \A t \in Threads :
          (thr[t].pc = "return" /\ thr[t].inst = 0)
             => IsErr(thr[t].res, "KeyspaceDoesNotExist")

----------------------------------------------------------------------------
(* The chunking specification: the peer sends the serializations of up to
   MaxStream frames and closes; read_buf hands the bytes over in chunks of
   any sizes.  ref holds the frames sent, in order. *)

\* the frames the peer serializes, one of each variant that takes at most
\* ten bytes
ChunkFrames ==
    {FNull, FString(B_a), FBoolean(TRUE), FInteger(7),
     FArray(<< FNull >>), FMap(<< FNull, FNull >>),
     FMap(<< FNull, FNull, FNull, FNull >>)}

\* the sequences of n frames
RECURSIVE FrameSeqs(_)
FrameSeqs(n) ==
    IF n = 0 THEN {<< >>}
    ELSE {Append(s, f) : s \in FrameSeqs(n - 1), f \in ChunkFrames}

\* the bytes write_frame produces for the frames fs[i..], one after another
RECURSIVE Serialized(_, _)
Serialized(fs, i) ==
    IF i > Len(fs) THEN << >>
    ELSE WriteFrame(fs[i]).out \o Serialized(fs, i + 1)

\* the longest stream, in bytes: the longest serialization is 16 bytes
MaxChunkLen == 16 * MaxStream

InitChunks ==
    /\ db = DbNew(0)
    /\ tasks = << >>
    /\ wg = {<< "db" >>}
    /\ now = 0
    /\ last = NoOp
    /\ \E k \in 0..MaxStream : \E fs \in FrameSeqs(k) :
          /\ ref = fs
          /\ rin = Serialized(fs, 1)
    /\ srv = "running"
    /\ doneClosed = FALSE
    /\ conns = << >>
    /\ thr = << >> /\ locks = << >>
    /\ cframe = << >> /\ wire = << >> /\ pres = << >>
    /\ rbuf = << >>
    /\ rres = [pc |-> "parse", ret |-> << >>]

NextChunks ==
    \/ ReadFrameCall
    \/ ParseFrame
    \/ \E n \in 1..MaxChunkLen : ReadBuf(n)
    \/ ReadBufZero
    \/ ReadBufErr

SpecChunks == InitChunks /\ [][NextChunks]_vars

----------------------------------------------------------------------------
(* Claims about read_frame and chunks, under SpecChunks *)

\* the bytes read_frame has not consumed
Unconsumed == rbuf \o rin

\* C37: however the bytes of k serialized frames are split into reads,
\* the calls of read_frame return those frames in order and then None:
\* a call that returns a frame returns the j-th frame sent, having consumed
\* exactly the first j serializations; a call returns None only when every
\* byte is consumed; and no call fails but on an I/O error.
C37_ChunkIndependent ==
    rres.pc = "returned" =>
       /\ rres.ret[1] \in {"Some", "None", "Io"}
       /\ rres.ret[1] = "Some" =>
             \E j \in 1..Len(ref) :
                 /\ FrameEq(rres.ret[2], ref[j])
                 /\ Unconsumed = Serialized(ref, j + 1)
       /\ rres.ret[1] = "None" => Unconsumed = << >>

\* the same over the streams without a Map of an odd number of pairs, the
\* Maps whose serialization frame::parse takes back
ChunkIndependentEvenMaps ==
    (\A i \in 1..Len(ref) :
        FType(ref[i]) = "Map" => Len(FVal(ref[i])) % 4 = 0)
       => C37_ChunkIndependent


----------------------------------------------------------------------------
(* The ttl specification: the arithmetic of Keyspace::ttl at its width.  A
   u64 is four limbs of 16 bits, least significant first, so that expire_at
   ranges over all of u64 (Set::parse_args reads it with parse::<u64>).  ref
   is the pair (expiry, current_time) and pres the Result of the call. *)

LimbBase == 2^16
U64Zero == << 0, 0, 0, 0 >>
U64Max == << LimbBase - 1, LimbBase - 1, LimbBase - 1, LimbBase - 1 >>

\* the u64 of a natural number below 2^31
U64Of(n) == << n % LimbBase, (n \div LimbBase) % LimbBase, 0, 0 >>

\* a + b in u64, wrapping
U64Add(a, b) ==
    LET s1 == a[1] + b[1]
        s2 == a[2] + b[2] + (s1 \div LimbBase)
        s3 == a[3] + b[3] + (s2 \div LimbBase)
        s4 == a[4] + b[4] + (s3 \div LimbBase)
    IN << s1 % LimbBase, s2 % LimbBase, s3 % LimbBase, s4 % LimbBase >>

\* a < b and a <= b in u64
U64Lt(a, b) ==
    \E i \in 1..4 : a[i] < b[i] /\ \A j \in (i + 1)..4 : a[j] = b[j]
U64Le(a, b) == a = b \/ U64Lt(a, b)

\* a - b in u64, for b <= a
U64Sub(a, b) ==
    LET d1 == a[1] - b[1]
        d2 == a[2] - b[2] - (IF d1 < 0 THEN 1 ELSE 0)
        d3 == a[3] - b[3] - (IF d2 < 0 THEN 1 ELSE 0)
        d4 == a[4] - b[4] - (IF d3 < 0 THEN 1 ELSE 0)
    IN << (d1 + LimbBase) % LimbBase, (d2 + LimbBase) % LimbBase,
          (d3 + LimbBase) % LimbBase, (d4 + LimbBase) % LimbBase >>

\* a * 1000: the low 64 bits and what is carried out of them
U64Mul1000(a) ==
    LET p1 == a[1] * 1000
        p2 == a[2] * 1000 + (p1 \div LimbBase)
        p3 == a[3] * 1000 + (p2 \div LimbBase)
        p4 == a[4] * 1000 + (p3 \div LimbBase)
    IN [bits |-> << p1 % LimbBase, p2 % LimbBase, p3 % LimbBase, p4 % LimbBase >>,
        carry |-> p4 \div LimbBase]

\* the i64 that `as i64` makes of the u64 bits is negative when the top bit
\* is set
I64Negative(bits) == bits[4] >= LimbBase \div 2

\* the value Keyspace::ttl returns for a key held with Some(expiry), read at
\* current_time: Null when expired, else ((expiry - current_time) * 1000) as
\* i64.  The u64 product that does not fit panics in a build with
\* overflow-checks (the dev profile) and wraps without them (the release
\* profile).  The payload of the Integer is the bits of the i64.
TtlAtWidth(expiry, current_time, overflow_checks) ==
    IF U64Le(expiry, current_time) THEN Ok(FNull)
    ELSE LET p == U64Mul1000(U64Sub(expiry, current_time))
         IN IF p.carry # 0 /\ overflow_checks THEN Panic
            ELSE Ok(FInteger(p.bits))

\* the values of expire_at: from each of these, MaxTtlOffset steps upwards
\* (wrapping): 0; 2^16 - 1; i64::MAX / 1000; u64::MAX / 1000; 2^32 - 1;
\* 2^48; u64::MAX - 1
MaxTtlOffset == 2
ExpiryBases ==
    {U64Zero,
     << LimbBase - 1, 0, 0, 0 >>,
     << LimbBase - 1, LimbBase - 1, 0, 0 >>,
     << 0, 0, 0, 1 >>,
     << 21495, 42467, 50331, 32 >>,
     << 42991, 19398, 35127, 65 >>,
     << LimbBase - 2, LimbBase - 1, LimbBase - 1, LimbBase - 1 >>}
Expiries == {U64Add(b, U64Of(d)) : b \in ExpiryBases, d \in 0..MaxTtlOffset}

InitTtl ==
    /\ db = DbNew(0)
    /\ tasks = << >>
    /\ wg = {<< "db" >>}
    /\ now \in 0..MaxTime
    /\ last = NoOp
    /\ ref \in {[expiry |-> e, current_time |-> U64Of(now)] : e \in Expiries}
    /\ srv = "running"
    /\ doneClosed = FALSE
    /\ conns = << >>
    /\ thr = << >> /\ locks = << >>
    /\ cframe = None /\ wire = None
    /\ pres = None
    /\ rbuf = << >> /\ rin = << >> /\ rres = << >>

\* Keyspace::ttl returns for the key, in a build with or without
\* overflow-checks
TtlCall(overflow_checks) ==
    /\ pres = None
    /\ pres' = Some(TtlAtWidth(ref.expiry, ref.current_time, overflow_checks))
    /\ UNCHANGED << cframe, wire >>
    /\ UNCHANGED << db, tasks, wg, now, last, ref, srv, doneClosed, conns >>
    /\ UNCHANGED << lockVars, readVars >>

NextTtl == \E overflow_checks \in BOOLEAN : TtlCall(overflow_checks)

SpecTtl == InitTtl /\ [][NextTtl]_vars

\* (expire_at - now) * 1000 as the integer it is, in five limbs
ExactMillis ==
    LET p == U64Mul1000(U64Sub(ref.expiry, ref.current_time))
    IN p.bits \o << p.carry >>

\* C40: the arithmetic in ttl never overflows or wraps: for every key whose
\* expire_at is any unsigned 64-bit value greater than now, the
\* multiplication by 1000 and the conversion to a signed 64-bit Integer
\* produce a strictly positive result equal to (expire_at - now) * 1000.
C40_TtlExact ==
    (IsSome(pres) /\ U64Lt(ref.current_time, ref.expiry))
       => LET res == Unwrap(pres)
          IN /\ res.ok
             /\ FType(res.val) = "Integer"
             /\ ~I64Negative(FVal(res.val))
             /\ FVal(res.val) # U64Zero
             /\ FVal(res.val) \o << 0 >> = ExactMillis

\* the same for expire_at - now up to i64::MAX / 1000
TtlExactInRange ==
    U64Le(U64Sub(ref.expiry, ref.current_time), << 21495, 42467, 50331, 32 >>)
       => C40_TtlExact

\* where (expiry - t) * 1000 < 2^31, TtlMillis is the same number
TtlMillisAgrees ==
    (/\ IsSome(pres) /\ U64Lt(ref.current_time, ref.expiry)
     /\ U64Lt(ref.expiry, U64Of(MaxTime + MaxTtlOffset + 1)))
       => Unwrap(pres) = Ok(FInteger(U64Of(TtlMillis(ref.expiry[1], now))))

====
